---- MODULE Spec2Model ----
(***************************************************************************)
(* A model of the evernote-tool converter (ENEX <-> Markdown).             *)
(*                                                                         *)
(* Text is modelled as a sequence of tokens: every token is one character  *)
(* that the code's string operations and regular expressions distinguish   *)
(* ("\n", " ", "|", "-", ...) or a word, i.e. a run of letters that those  *)
(* operations never split.                                                 *)
(***************************************************************************)
EXTENDS Integers, Sequences, FiniteSets, TLC

\* ------------------------------------------------------------------ bounds
\* Largest number of rows of a table handed to the normalizer.
MaxRows == 2
\* Largest sum of colspans of one input row of the normalizer.
MaxCols == 2

\* Largest number of rows of a table element given to html_table_to_markdown.
MaxTRows == 2
\* Largest number of cells in a row of such a table element.
MaxTCols == 2

\* Largest number of block elements in a note body given to the renderer.
MaxBlocks == 3
\* Largest number of items of a list given to the renderer.
MaxItems == 3
\* Largest number of notes handed to one writer.
MaxNotes == 3
\* Largest number of image or link references in a markup body.
MaxRefs == 2
\* Largest number of note records in an export file.
MaxRecords == 2

VARIABLES
    \* EnexParser.parse and EnexWriter
    export_doc,       \* the export file given to EnexParser
    parsed,           \* the list of Notes that EnexParser.parse returned
    exported,         \* the note elements of the document EnexWriter saved
    root,             \* the note elements of EnexWriter's document in memory
    written,          \* history: the notes given to EnexWriter.write, in call order
    saves,            \* the number of times EnexWriter.save wrote the output file
    epc,              \* "idle", "start", "done", or "raised" (ValueError)
    \* MarkdownParser.parse
    post,             \* the markup file: its header (metadata) and its body (content)
    disk,             \* the files below the directory of the markup file: path -> bytes
    read_note,        \* the returned Note, or NoNote
    warnings,         \* the paths for which a warning was logged, in order
    mpc,              \* "idle", "start", "done"
    \* HtmlToMarkdownConverter.convert
    tree,             \* the parsed document (the BeautifulSoup object)
    markdown,         \* what _process_elements returned
    converted,        \* what convert returned
    rpc,              \* "idle", "start", "done"
    \* writers.MarkdownWriter and mark.MarkdownWriter
    md_files,         \* the markup files of the output directory: name -> content
    asset_files,      \* the files of the assets subdirectory: name -> bytes
    calls,            \* the number of notes handed to the writer so far
    last_call,        \* the last call: the note, the outcome, the path written and
                      \* the content as _process_resources left it
    wpc,              \* "idle", "writers" or "mark": the writer that was constructed
    \* TableHandler.html_table_to_markdown
    table,            \* the <table> element
    parsed_rows,      \* what _parse_table_structure returned
    md_rows,          \* the normalized rows as _generate_markdown_table left them
    alignments,       \* what _detect_column_alignment returned
    md,               \* the returned text
    html_table,       \* the table element that markdown_table_to_html built from md
    tpc,              \* "idle", "start", "done"
    \* TableHandler._normalize_merged_cells
    rows,             \* the List[TableRow] argument
    grid,             \* grid[r][c]: the cell occupying the slot, or NoCell
    row_idx,          \* the outer loop's index (1-based)
    cell_idx,         \* position in row.cells of the inner loop (1-based)
    col_idx,          \* the col_idx local (1-based)
    placed,           \* history: the column at which each cell was rooted
    normalized_rows,  \* the returned list
    npc               \* "idle", "fill", "rebuild", "done"

normVars == <<rows, grid, row_idx, cell_idx, col_idx, placed, normalized_rows, npc>>

tableVars == <<table, parsed_rows, md_rows, alignments, md, html_table, tpc>>

renderVars == <<tree, markdown, converted, rpc>>

writerVars == <<md_files, asset_files, calls, last_call, wpc>>

readerVars == <<post, disk, read_note, warnings, mpc>>

documentVars == <<root, written, saves>>

exportVars == <<export_doc, parsed, exported, documentVars, epc>>

vars == <<normVars, tableVars, renderVars, writerVars, readerVars, exportVars>>

\* ----------------------------------------------------------------- helpers
None == "None"

Max(a, b) == IF a >= b THEN a ELSE b
Min(a, b) == IF a <= b THEN a ELSE b

RECURSIVE Concat(_)
\* ''.join(seq) for a sequence of texts
Concat(ss) == IF ss = <<>> THEN <<>> ELSE Head(ss) \o Concat(Tail(ss))

RECURSIVE Join(_, _)
\* sep.join(seq) for a sequence of texts
Join(sep, ss) ==
    IF ss = <<>> THEN <<>>
    ELSE IF Len(ss) = 1 THEN Head(ss)
    ELSE Head(ss) \o sep \o Join(sep, Tail(ss))

IsSpace(t) == t \in {" ", "\n", "\t"}

RECURSIVE LStrip(_)
LStrip(s) == IF s # <<>> /\ IsSpace(Head(s)) THEN LStrip(Tail(s)) ELSE s

RECURSIVE RStrip(_)
RStrip(s) ==
    IF s # <<>> /\ IsSpace(s[Len(s)]) THEN RStrip(SubSeq(s, 1, Len(s) - 1)) ELSE s

\* str.strip()
Strip(s) == RStrip(LStrip(s))

RECURSIVE CollapseWs(_)
\* re.sub(r'\s+', ' ', s)
CollapseWs(s) ==
    IF s = <<>> THEN <<>>
    ELSE IF IsSpace(Head(s))
    THEN <<" ">> \o CollapseWs(LStrip(s))
    ELSE <<Head(s)>> \o CollapseWs(Tail(s))

RECURSIVE Replace(_, _, _)
\* s.replace(a, b) for a one-character a
Replace(s, a, b) ==
    IF s = <<>> THEN <<>>
    ELSE (IF Head(s) = a THEN b ELSE <<Head(s)>>) \o Replace(Tail(s), a, b)

RECURSIVE SplitOn(_, _, _)
\* s.split(sep) for a one-character sep (cur is the piece being read)
SplitOn(s, sep, cur) ==
    IF s = <<>> THEN <<cur>>
    ELSE IF Head(s) = sep THEN <<cur>> \o SplitOn(Tail(s), sep, <<>>)
    ELSE SplitOn(Tail(s), sep, Append(cur, Head(s)))

\* The words used as cell texts: Words[i][j] is the text of cell j of row i.
Words == << <<"Name", "Age", "City", "Zip">>,
            <<"Ann", "30", "Rome", "00100">>,
            <<"Bob", "41", "Oslo", "0150">>,
            <<"Cy", "52", "Bern", "3000">>,
            <<"Di", "63", "Riga", "1050">> >>

\* ------------------------------------------------- table_handler.py: model
\* dataclass TableCell; __post_init__ strips the content
TableCell(content, rowspan, colspan, is_header, align) ==
    [content |-> Strip(content), rowspan |-> rowspan, colspan |-> colspan,
     is_header |-> is_header, align |-> align]

\* dataclass TableRow
TableRow(cells, is_header) == [cells |-> cells, is_header |-> is_header]

\* A grid slot holds a reference to a cell object; the object is identified
\* by its position <<row, index in row.cells>> in the input (Python's id()).
NoCell == <<0, 0>>

CellOf(rs, id) == rs[id[1]].cells[id[2]]

RECURSIVE SumColspan(_)
\* sum(cell.colspan for cell in row.cells)
SumColspan(cells) ==
    IF cells = <<>> THEN 0 ELSE Head(cells).colspan + SumColspan(Tail(cells))

RECURSIVE MaxOver(_)
MaxOver(ns) == IF Len(ns) = 1 THEN Head(ns) ELSE Max(Head(ns), MaxOver(Tail(ns)))

\* max_cols = max(sum(cell.colspan for cell in row.cells) for row in rows)
max_cols(rs) == MaxOver([r \in 1..Len(rs) |-> SumColspan(rs[r].cells)])

\* grid = [[None for _ in range(max_cols)] for _ in range(len(rows))]
EmptyGrid(rs) == [r \in 1..Len(rs) |-> [c \in 1..max_cols(rs) |-> NoCell]]

RECURSIVE SkipFilled(_, _, _)
\* while col_idx < max_cols and grid[row_idx][col_idx] is not None: col_idx += 1
SkipFilled(gridRow, col, mc) ==
    IF col <= mc /\ gridRow[col] # NoCell THEN SkipFilled(gridRow, col + 1, mc) ELSE col

\* for r in range(row_idx, min(row_idx + cell.rowspan, len(rows))):
\*     for c in range(col_idx, min(col_idx + cell.colspan, max_cols)):
\*         grid[r][c] = cell
\* (mc is max_cols, ri and ci name the cell, col is col_idx)
FillSpan(g, rs, mc, ri, ci, col) ==
    LET rEnd == Min(ri + rs[ri].cells[ci].rowspan, Len(rs) + 1)
        cEnd == Min(col + rs[ri].cells[ci].colspan, mc + 1)
    IN  [r \in DOMAIN g |->
            IF r >= ri /\ r < rEnd
            THEN [c \in DOMAIN g[r] |-> IF c >= col /\ c < cEnd THEN <<ri, ci>> ELSE g[r][c]]
            ELSE g[r]]

\* One iteration of the inner loop "for cell in row.cells" (with the "break"
\* and the step of the outer loop when the row is exhausted).
\* st = [grid, row_idx, cell_idx, col_idx, placed, pc]; mc is max_cols
FillCellStep(rs, mc, st) ==
    LET ri    == st.row_idx
        ci    == st.cell_idx
        col   == SkipFilled(st.grid[ri], st.col_idx, mc)
        brk   == col > mc                            \* if col_idx >= max_cols: break
        last  == brk \/ ci = Len(rs[ri].cells)       \* the row's loop ends
        g2    == IF brk THEN st.grid ELSE FillSpan(st.grid, rs, mc, ri, ci, col)
        p2    == IF brk THEN st.placed ELSE [st.placed EXCEPT ![<<ri, ci>>] = col]
        col2  == IF brk THEN col ELSE col + rs[ri].cells[ci].colspan
    IN  IF ~last
        THEN [grid |-> g2, row_idx |-> ri, cell_idx |-> ci + 1, col_idx |-> col2,
              placed |-> p2, pc |-> "fill"]
        ELSE IF ri < Len(rs)
        THEN [grid |-> g2, row_idx |-> ri + 1, cell_idx |-> 1, col_idx |-> 1,
              placed |-> p2, pc |-> "fill"]
        ELSE [grid |-> g2, row_idx |-> ri, cell_idx |-> ci, col_idx |-> col2,
              placed |-> p2, pc |-> "rebuild"]

\* the identities of the cell objects of rs
CellIds(rs) == UNION {{<<r, i>> : i \in 1..Len(rs[r].cells)} : r \in 1..Len(rs)}

FillStart(rs) ==
    [grid |-> EmptyGrid(rs), row_idx |-> 1, cell_idx |-> 1, col_idx |-> 1,
     placed |-> [id \in CellIds(rs) |-> 0],
     pc |-> "fill"]

RECURSIVE FillAll(_, _, _)
\* the whole "fill the grid" loop, lines 205-220
FillAll(rs, mc, st) ==
    IF st.pc = "fill"
    THEN CHOOSE end \in {FillAll(rs, mc, nxt) : nxt \in {FillCellStep(rs, mc, st)}} : TRUE
    ELSE st

RECURSIVE Copies(_, _)
\* for _ in range(cell.colspan): cells.append(TableCell(content, is_header, align))
Copies(cell, n) ==
    IF n <= 0 THEN <<>>
    ELSE <<TableCell(cell.content, 1, 1, cell.is_header, cell.align)>> \o Copies(cell, n - 1)

RECURSIVE RebuildCells(_, _, _, _)
\* the loop "for col_idx in range(max_cols)" of the rebuild, with seen_cells
RebuildCells(rs, gridRow, col, seen) ==
    IF col > Len(gridRow) THEN <<>>
    ELSE LET id == gridRow[col]
         IN  IF id # NoCell /\ id \notin seen
             THEN Copies(CellOf(rs, id), CellOf(rs, id).colspan)
                     \o RebuildCells(rs, gridRow, col + 1, seen \cup {id})
             ELSE IF id = NoCell
             THEN <<TableCell(<<" ">>, 1, 1, FALSE, None)>>
                     \o RebuildCells(rs, gridRow, col + 1, seen)
             ELSE RebuildCells(rs, gridRow, col + 1, seen)

\* (mutant) the slice is forgotten
TruncateNone(s, n) == s

\* cells[:max_cols]
Truncate(s, n) == SubSeq(s, 1, Min(Len(s), n))

\* normalized_rows.append(TableRow(cells=cells[:max_cols], is_header=row.is_header))
RebuildRows(rs, g) ==
    [r \in 1..Len(rs) |->
        TableRow(Truncate(RebuildCells(rs, g[r], 1, {}), Len(g[r])), rs[r].is_header)]

\* TableHandler._normalize_merged_cells as a function of its argument
normalize_merged_cells(rs) ==
    IF rs = <<>> THEN rs
    ELSE CHOOSE out \in {RebuildRows(rs, FillAll(rs, mc, FillStart(rs)).grid) :
                            mc \in {max_cols(rs)}} : TRUE

\* -------------------------------------------- html_table_to_markdown
\* An element's attributes, as _get_cell_alignment reads them: the align
\* attribute ("" when absent) and the set of the substrings "text-align",
\* "center", "right", "left" that its style attribute contains.
Attrs(align, style) == [align |-> align, style |-> style]

\* str.lower() on the attribute values of the model
Lower(t) ==
    CASE t = "LEFT" -> "left"
      [] t = "CENTER" -> "center"
      [] t = "RIGHT" -> "right"
      [] OTHER -> t

\* TableHandler._get_cell_alignment
get_cell_alignment(a) ==
    IF Lower(a.align) \in {"left", "center", "right"} THEN Lower(a.align)
    ELSE IF "text-align" \in a.style
         THEN IF "center" \in a.style THEN "center"
              ELSE IF "right" \in a.style THEN "right"
              ELSE IF "left" \in a.style THEN "left"
              ELSE None
         ELSE None

\* TableHandler._get_cell_content for a cell whose only child is a string
get_cell_content(cell) ==
    LET text    == Strip(cell.text)
        parts   == IF text # <<>> THEN <<text>> ELSE <<>>
        content == CollapseWs(Join(<<" ">>, parts))
    IN  IF Strip(content) # <<>> THEN Strip(content) ELSE <<" ">>

\* The value of a rowspan or colspan attribute is <<>> when the attribute is
\* absent and the one-token text of the attribute otherwise.
\* Does int(cell.get(name, 1)) return (rather than raise ValueError)?
is_int(value) == value \in {<<>>, <<"1">>, <<"2">>}

\* int(cell.get(name, 1))
py_int(value) == IF value = <<"2">> THEN 2 ELSE 1

RECURSIVE parse_cells(_, _)
\* the loop of _parse_row over tr.find_all(['td', 'th'], recursive=False)
parse_cells(tr, is_header) ==
    IF tr = <<>> THEN <<>>
    ELSE LET cell == Head(tr)
         IN  <<TableCell(get_cell_content(cell), py_int(cell.rowspan), py_int(cell.colspan),
                         is_header \/ cell.name = "th", get_cell_alignment(cell.attrs))>>
                \o parse_cells(Tail(tr), is_header)

RECURSIVE parse_rows(_, _)
\* for tr in ...: row = self._parse_row(tr, is_header); if row: rows.append(row)
\* (_parse_row returns None for a tr without cells)
parse_rows(trs, is_header) ==
    IF trs = <<>> THEN <<>>
    ELSE (IF Head(trs) = <<>> THEN <<>>
          ELSE <<TableRow(parse_cells(Head(trs), is_header), is_header)>>)
         \o parse_rows(Tail(trs), is_header)

\* Does a row that _parse_table_structure visits hold a cell whose rowspan or
\* colspan makes int() raise (lines 108-109)?  The rows directly under the
\* table are visited only when the groupings gave no row.
parse_raises(t) ==
    LET grouped == t.thead \o t.tbody
        visited == IF \A k \in 1..Len(grouped) : grouped[k] = <<>>
                   THEN grouped \o t.direct ELSE grouped
    IN  \E k \in 1..Len(visited) : \E j \in 1..Len(visited[k]) :
            ~is_int(visited[k][j].rowspan) \/ ~is_int(visited[k][j].colspan)

\* TableHandler._parse_table_structure
parse_table_structure(t) ==
    LET grouped == parse_rows(t.thead, TRUE) \o parse_rows(t.tbody, FALSE)
    IN  IF grouped # <<>> THEN grouped ELSE parse_rows(t.direct, FALSE)

\* TableHandler._detect_column_alignment
detect_column_alignment(t, num_cols) ==
    [i \in 1..num_cols |->
        IF i <= Len(t.colgroup) /\ get_cell_alignment(t.colgroup[i]) # None
        THEN get_cell_alignment(t.colgroup[i])
        ELSE "left"]

\* TableHandler._escape_cell_content
escape_cell_content(content) ==
    LET a == Replace(content, "|", <<"\\", "|">>)
        b == Replace(a, "\n", <<" ">>)
        c == CollapseWs(b)
    IN  IF Strip(c) # <<>> THEN Strip(c) ELSE <<" ">>

\* (mutant) centre and right markers swapped
generate_separator_row_swapped(num_cols, aligns) ==
    <<"|", " ">>
    \o Join(<<" ", "|", " ">>,
            [i \in 1..num_cols |->
                LET align == IF i <= Len(aligns) THEN aligns[i] ELSE "left"
                IN  IF align = "right" THEN <<":", "-", "-", "-", ":">>
                    ELSE IF align = "center" THEN <<"-", "-", "-", ":">>
                    ELSE <<"-", "-", "-">>])
    \o <<" ", "|">>

\* TableHandler._generate_separator_row
generate_separator_row(num_cols, aligns) ==
    <<"|", " ">>
    \o Join(<<" ", "|", " ">>,
            [i \in 1..num_cols |->
                LET align == IF i <= Len(aligns) THEN aligns[i] ELSE "left"
                IN  IF align = "center" THEN <<":", "-", "-", "-", ":">>
                    ELSE IF align = "right" THEN <<"-", "-", "-", ":">>
                    ELSE <<"-", "-", "-">>])
    \o <<" ", "|">>

\* (mutant) the promotion of the first row is forgotten
promote_header_never(rs) == rs

\* lines 273-279: the first row is made the header when no row is one
promote_header(rs) ==
    IF \E r \in 1..Len(rs) : rs[r].is_header THEN rs
    ELSE [rs EXCEPT ![1].is_header = TRUE]

\* '| ' + ' | '.join(cells_text) + ' |'
row_line(row) ==
    <<"|", " ">>
    \o Join(<<" ", "|", " ">>,
            [i \in 1..Len(row.cells) |-> escape_cell_content(row.cells[i].content)])
    \o <<" ", "|">>

\* line 287: is a separator emitted after row r (1-based)?
separator_after(rs, r) ==
    /\ rs[r].is_header
    /\ IF r + 1 <= Len(rs) THEN (r = 1 \/ ~rs[r + 1].is_header) ELSE TRUE

RECURSIVE table_lines(_, _, _)
\* the loop of lines 282-289 over the rows from row r on
table_lines(rs, aligns, r) ==
    IF r > Len(rs) THEN <<>>
    ELSE <<row_line(rs[r])>>
         \o (IF separator_after(rs, r)
             THEN <<generate_separator_row(Len(rs[r].cells), aligns)>> ELSE <<>>)
         \o table_lines(rs, aligns, r + 1)

\* TableHandler._generate_markdown_table (rs already with the promoted header)
generate_markdown_table(rs, aligns) ==
    IF rs = <<>> THEN <<>>
    ELSE Join(<<"\n">>, table_lines(rs, aligns, 1)) \o <<"\n">>

\* table.find_all('tr'): the rows of the table in document order
find_all_tr(t) == t.thead \o t.tbody \o t.direct

\* the text of the generic header line of the fallback table (line 322)
FallbackHeader == <<"|", " ", "content", " ", "|">>

RECURSIVE fallback_lines(_)
\* the loop of lines 324-328
fallback_lines(trs) ==
    IF trs = <<>> THEN <<>>
    ELSE (IF Head(trs) # <<>>
          THEN << <<"|", " ">>
                  \o Join(<<" ", "|", " ">>,
                          [j \in 1..Len(Head(trs)) |-> Strip(Head(trs)[j].text)])
                  \o <<" ", "|">> >>
          ELSE <<>>)
         \o fallback_lines(Tail(trs))

\* TableHandler._fallback_table_conversion
fallback_table_conversion(t) ==
    Join(<<"\n">>, <<FallbackHeader, <<"|", " ", "-", "-", "-", " ", "|">> >>
                    \o fallback_lines(find_all_tr(t)))
    \o <<"\n">>

\* A <table> element: the <col> children of its <colgroup>, and the <tr>
\* children of its <thead>, of its <tbody> and of the table itself; a group
\* without rows is the same to the code as a group that is absent.
\* Cell j of the k-th row in reading order has the text Words[k][j].
MkCell(k, j, name, attrs) ==
    [name |-> name, text |-> <<Words[k][j]>>, attrs |-> attrs, rowspan |-> <<>>, colspan |-> <<>>]

MkTable(m, h, b, d, names, attrs, cg) ==
    LET tr(k) == [j \in 1..m |-> MkCell(k, j, names[k], attrs)]
    IN  [colgroup |-> cg,
         thead  |-> [k \in 1..h |-> tr(k)],
         tbody  |-> [k \in 1..b |-> tr(h + k)],
         direct |-> [k \in 1..d |-> tr(h + b + k)]]

NoAttrs == Attrs("", {})

ColAttrs == {NoAttrs, Attrs("center", {}), Attrs("", {"text-align", "right"}),
             Attrs("LEFT", {"text-align", "center"})}

CellAttrs == {NoAttrs, Attrs("center", {}), Attrs("justify", {"right"})}

TableIdle ==
    /\ table = <<>>
    /\ parsed_rows = <<>>
    /\ md_rows = <<>>
    /\ alignments = <<>>
    /\ md = <<>>
    /\ html_table = <<>>
    /\ tpc = "idle"

TableInit ==
    /\ \E m \in 1..MaxTCols, h \in 0..MaxTRows, b \in 0..MaxTRows, d \in 0..MaxTRows :
          /\ h + b + d \in 1..MaxTRows
          /\ \E names \in [1..(h + b + d) -> {"td", "th"}], attrs \in CellAttrs, k \in 0..m :
                \E cg \in [1..k -> ColAttrs] :
                    table = MkTable(m, h, b, d, names, attrs, cg)
    /\ parsed_rows = <<>>
    /\ md_rows = <<>>
    /\ alignments = <<>>
    /\ md = <<>>
    /\ html_table = <<>>
    /\ tpc = "start"

\* TableHandler.html_table_to_markdown: the ValueError of int() is the one
\* exception a step raises on these tables, and line 63 catches it
html_table_to_markdown ==
    /\ tpc = "start"
    /\ IF parse_raises(table)
       THEN /\ parsed_rows' = <<>>
            /\ md_rows' = <<>>
            /\ alignments' = <<>>
            /\ md' = fallback_table_conversion(table)
       ELSE
       \E rs \in {parse_table_structure(table)} :
          /\ parsed_rows' = rs
          /\ IF rs = <<>>
             THEN /\ md_rows' = <<>>
                  /\ alignments' = <<>>
                  /\ md' = <<>>
             ELSE \E nrs \in {normalize_merged_cells(rs)} :
                  \E al \in {detect_column_alignment(table, Len(nrs[1].cells))} :
                  \E hrs \in {promote_header(nrs)} :
                      /\ md_rows' = hrs
                      /\ alignments' = al
                      /\ md' = generate_markdown_table(hrs, al)
    /\ tpc' = "done"
    /\ UNCHANGED <<table, html_table, normVars, renderVars, writerVars, readerVars, exportVars>>

TableNext == html_table_to_markdown

\* ------------------------------------------------ markdown_table_to_html
RECURSIVE LStripPipes(_)
LStripPipes(s) == IF s # <<>> /\ Head(s) = "|" THEN LStripPipes(Tail(s)) ELSE s

RECURSIVE RStripPipes(_)
RStripPipes(s) ==
    IF s # <<>> /\ s[Len(s)] = "|" THEN RStripPipes(SubSeq(s, 1, Len(s) - 1)) ELSE s

\* lines 355-356: line.strip('|').strip(), split at every '|', cells stripped
split_cells(line) ==
    LET pieces == SplitOn(Strip(RStripPipes(LStripPipes(line))), "|", <<>>)
    IN  [i \in 1..Len(pieces) |-> Strip(pieces[i])]

\* re.match(r'^:?-+:?$', cell.strip())
is_separator_cell(cell) ==
    LET c == Strip(cell)
        a == IF c # <<>> /\ Head(c) = ":" THEN Tail(c) ELSE c
        b == IF a # <<>> /\ a[Len(a)] = ":" THEN SubSeq(a, 1, Len(a) - 1) ELSE a
    IN  b # <<>> /\ \A i \in 1..Len(b) : b[i] = "-"

\* TableHandler._is_separator_row
is_separator_row(cells) == \A i \in 1..Len(cells) : is_separator_cell(cells[i])

\* TableHandler._parse_alignments
parse_alignments(separator_cells) ==
    [i \in 1..Len(separator_cells) |->
        LET cell == Strip(separator_cells[i])
        IN  IF cell # <<>> /\ Head(cell) = ":" /\ cell[Len(cell)] = ":" THEN "center"
            ELSE IF cell # <<>> /\ cell[Len(cell)] = ":" THEN "right"
            ELSE "left"]

RECURSIVE scan_lines(_, _, _)
\* the loop of lines 353-364 from line idx (0-based) on; acc holds rows,
\* separator_idx and alignments
scan_lines(lines, idx, acc) ==
    IF idx >= Len(lines) THEN acc
    ELSE LET cells == split_cells(lines[idx + 1])
         IN  IF is_separator_row(cells)
             THEN scan_lines(lines, idx + 1,
                             [acc EXCEPT !.separator_idx = idx,
                                         !.alignments = parse_alignments(cells)])
             ELSE scan_lines(lines, idx + 1, [acc EXCEPT !.rows = Append(@, cells)])

RECURSIVE unescape_cell_content(_)
\* TableHandler._unescape_cell_content: content.replace('\\|', '|')
unescape_cell_content(content) ==
    IF content = <<>> THEN <<>>
    ELSE IF Len(content) >= 2 /\ content[1] = "\\" /\ content[2] = "|"
    THEN <<"|">> \o unescape_cell_content(SubSeq(content, 3, Len(content)))
    ELSE <<Head(content)>> \o unescape_cell_content(Tail(content))

\* TableHandler._process_cell_markdown and the parse of its result: the four
\* substitutions look for '*', the code-span character and '[', which no
\* cell text of this model holds, so the cell's string is the content
process_cell_markdown(content) == content

\* the <th> or <td> elements of one row (lines 408-413 and 422-428)
html_cells(row_data, aligns, name) ==
    [c \in 1..Len(row_data) |->
        [name  |-> name,
         align |-> IF c <= Len(aligns) THEN aligns[c] ELSE None,
         text  |-> IF name = "th" THEN unescape_cell_content(row_data[c])
                   ELSE process_cell_markdown(row_data[c])]]

\* TableHandler._generate_html_table
generate_html_table(rs, separator_idx, aligns) ==
    LET head      == IF separator_idx > 0
                     THEN SubSeq(rs, 1, Min(separator_idx, Len(rs))) ELSE <<>>
        start_idx == IF separator_idx >= 0 THEN separator_idx ELSE 0
        body      == SubSeq(rs, start_idx + 1, Len(rs))
    IN  [thead |-> [k \in 1..Len(head) |-> html_cells(head[k], aligns, "th")],
         tbody |-> [k \in 1..Len(body) |-> html_cells(body[k], aligns, "td")]]

\* line 343: the stripped lines of the text that are not blank
table_text_lines(markdown_table) ==
    LET pieces == SplitOn(Strip(markdown_table), "\n", <<>>)
    IN  SelectSeq([i \in 1..Len(pieces) |-> Strip(pieces[i])], LAMBDA l : l # <<>>)

\* TableHandler.markdown_table_to_html for a text of two lines or more
\* (a shorter text is returned as it is, line 346)
markdown_table_to_html_of(markdown_table) ==
    LET lines == table_text_lines(markdown_table)
        acc   == scan_lines(lines, 0, [rows |-> <<>>, separator_idx |-> -1,
                                       alignments |-> <<>>])
    IN  generate_html_table(acc.rows, acc.separator_idx, acc.alignments)

\* markdown_table_to_html(html_table_to_markdown(T)): the second half
markdown_table_to_html ==
    /\ tpc = "done"
    /\ Len(table_text_lines(md)) >= 2
    /\ html_table' = markdown_table_to_html_of(md)
    /\ tpc' = "back"
    /\ UNCHANGED <<table, parsed_rows, md_rows, alignments, md,
                   normVars, renderVars, writerVars, readerVars, exportVars>>

\* Tables without merged cells that have one header row: a body row is
\* plain words, has a cell text with a pipe character (first or last cell),
\* or has only dashes in its cells.
RowKinds == {"plain", "pipe first", "pipe last", "dashes"}

TripCellText(kind, k, j, m) ==
    CASE kind = "pipe first" /\ j = 1 -> <<Words[k][j], "|", "x">>
      [] kind = "pipe last" /\ j = m  -> <<Words[k][j], "|">>
      [] kind = "dashes"              -> <<"-", "-", "-">>
      [] OTHER                        -> <<Words[k][j]>>

TripTableInit ==
    /\ \E m \in 1..MaxTCols, b \in 0..MaxTRows, name \in {"td", "th"} :
          \E kinds \in [1..b -> RowKinds] :
             table = [colgroup |-> <<>>,
                      thead  |-> << [j \in 1..m |-> MkCell(1, j, name, NoAttrs)] >>,
                      tbody  |-> [k \in 1..b |->
                                    [j \in 1..m |->
                                        [MkCell(k + 1, j, "td", NoAttrs)
                                            EXCEPT !.text = TripCellText(kinds[k], k + 1, j, m)]]],
                      direct |-> <<>>]
    /\ parsed_rows = <<>>
    /\ md_rows = <<>>
    /\ alignments = <<>>
    /\ md = <<>>
    /\ html_table = <<>>
    /\ tpc = "start"

TableTripNext == html_table_to_markdown \/ markdown_table_to_html

\* Tables with span attributes: cell j0 of row k0 (in reading order) carries
\* the rowspan and colspan attributes given, and its text is either one word
\* or two words on two lines of the document's source.
SpanTexts == {<<>>, <<"2">>, <<"x">>}

CellTexts(k, j) == {<<Words[k][j]>>, <<Words[k][j], "\n", "more">>}

WithCell(t, k0, j0, text, rowspan, colspan) ==
    LET put(trs, first) ==
            [k \in 1..Len(trs) |->
                [j \in 1..Len(trs[k]) |->
                    IF first + k = k0 /\ j = j0
                    THEN [trs[k][j] EXCEPT !.text = text, !.rowspan = rowspan,
                                           !.colspan = colspan]
                    ELSE trs[k][j]]]
    IN  [t EXCEPT !.thead  = put(t.thead, 0),
                  !.tbody  = put(t.tbody, Len(t.thead)),
                  !.direct = put(t.direct, Len(t.thead) + Len(t.tbody))]

SpanTableInit ==
    /\ \E m \in 1..MaxTCols, h \in 0..MaxTRows, b \in 0..MaxTRows, d \in 0..MaxTRows :
          /\ h + b + d \in 1..MaxTRows
          /\ \E k0 \in 1..(h + b + d), j0 \in 1..m, rowspan \in SpanTexts,
                colspan \in SpanTexts, name \in {"td", "th"} :
                \E text \in CellTexts(k0, j0) :
                    table = WithCell(MkTable(m, h, b, d, [k \in 1..(h + b + d) |-> name],
                                             NoAttrs, <<>>),
                                     k0, j0, text, rowspan, colspan)
    /\ parsed_rows = <<>>
    /\ md_rows = <<>>
    /\ alignments = <<>>
    /\ md = <<>>
    /\ html_table = <<>>
    /\ tpc = "start"

\* ------------------------------------------ the normalizer, step by step
\* A cell either stays in its row or reaches into the row below it.
RowSpans == {1, 2}

RECURSIVE RowsOfWidth(_)
\* all cell lists whose colspans sum to exactly w
RowsOfWidth(w) ==
    IF w = 0 THEN {<<>>}
    ELSE UNION {{<<[rowspan |-> rs, colspan |-> cs]>> \o rest :
                    rs \in RowSpans, rest \in RowsOfWidth(w - cs)} : cs \in 1..w}

SpanRows == UNION {RowsOfWidth(w) : w \in 1..MaxCols}

\* the rows of a table from a choice of spans: the text of cell i of row r
\* is Words[r][i], so that different cells have different texts
MkRows(spans) ==
    [r \in 1..Len(spans) |->
        TableRow([i \in 1..Len(spans[r]) |->
                     TableCell(<<Words[r][i]>>, spans[r][i].rowspan,
                               spans[r][i].colspan, FALSE, None)],
                 FALSE)]

NormIdle ==
    /\ rows = <<>>
    /\ grid = <<>>
    /\ row_idx = 0
    /\ cell_idx = 0
    /\ col_idx = 0
    /\ placed = <<>>
    /\ normalized_rows = <<>>
    /\ npc = "idle"

NormInit ==
    /\ \E n \in 1..MaxRows : \E sp \in [1..n -> SpanRows] : rows = MkRows(sp)
    /\ grid = EmptyGrid(rows)
    /\ row_idx = 1
    /\ cell_idx = 1
    /\ col_idx = 1
    /\ placed = FillStart(rows).placed
    /\ normalized_rows = <<>>
    /\ npc = "fill"

\* lines 207-220: one cell of the current row
FillCell ==
    /\ npc = "fill"
    /\ LET st == FillCellStep(rows, max_cols(rows), [grid |-> grid, row_idx |-> row_idx,
                                     cell_idx |-> cell_idx, col_idx |-> col_idx,
                                     placed |-> placed, pc |-> npc])
       IN  /\ grid' = st.grid
           /\ row_idx' = st.row_idx
           /\ cell_idx' = st.cell_idx
           /\ col_idx' = st.col_idx
           /\ placed' = st.placed
           /\ npc' = st.pc
    /\ UNCHANGED <<rows, normalized_rows, tableVars, renderVars, writerVars, readerVars, exportVars>>

\* lines 222-248: rebuild the rows from the grid and return
Rebuild ==
    /\ npc = "rebuild"
    /\ normalized_rows' = RebuildRows(rows, grid)
    /\ npc' = "done"
    /\ UNCHANGED <<rows, grid, row_idx, cell_idx, col_idx, placed, tableVars, renderVars, writerVars, readerVars, exportVars>>

NormNext == FillCell \/ Rebuild

\* ------------------------------------------------ html_converter.py: model
\* A node of the parsed document: an element (name, attributes, children)
\* or a string (name "#text", its characters in text); "#doctype" and
\* "#comment" are the node kinds the renderer skips.
Text(t) == [name |-> "#text", text |-> t, attrs |-> <<>>, kids |-> <<>>]
Elem(name, kids) == [name |-> name, text |-> <<>>, attrs |-> <<>>, kids |-> kids]
ElemA(name, attrs, kids) == [name |-> name, text |-> <<>>, attrs |-> attrs, kids |-> kids]

\* the character U+0060 of the code spans and fences
Backtick == "backtick"

RECURSIVE Repeat(_, _)
\* t * n
Repeat(t, n) == IF n <= 0 THEN <<>> ELSE <<t>> \o Repeat(t, n - 1)

RECURSIVE get_text(_)
\* Tag.get_text(): the strings below a node, as they are
get_text(node) ==
    IF node.name = "#text" THEN node.text
    ELSE IF node.name \in {"#doctype", "#comment"} THEN <<>>
    ELSE Concat([i \in 1..Len(node.kids) |-> get_text(node.kids[i])])

HeadingLevel(name) ==
    CASE name = "h1" -> 1 [] name = "h2" -> 2 [] name = "h3" -> 3
      [] name = "h4" -> 4 [] name = "h5" -> 5 [] name = "h6" -> 6 [] OTHER -> 0

\* the attributes of a node are a sequence of <<name, value>> pairs
HasAttr(node, attr) == \E i \in 1..Len(node.attrs) : node.attrs[i][1] = attr

\* child.get(attr, default)
GetAttr(node, attr, default) ==
    IF HasAttr(node, attr)
    THEN node.attrs[CHOOSE i \in 1..Len(node.attrs) : node.attrs[i][1] = attr][2]
    ELSE default

RECURSIVE process_elements(_)
RECURSIVE process_child(_)
RECURSIVE convert_list(_)
RECURSIVE list_lines(_, _, _)

\* HtmlToMarkdownConverter._process_elements: ''.join of what each child gives
process_elements(element) ==
    Concat([i \in 1..Len(element.kids) |-> process_child(element.kids[i])])

\* the body of the loop of _process_elements for one child (the documents
\* of this model hold no table and no code element inside a pre)
process_child(child) ==
    IF child.name \in {"#comment", "#doctype"} THEN <<>>
    ELSE IF child.name = "#text" THEN Strip(child.text)
    ELSE IF HeadingLevel(child.name) > 0
    THEN <<"\n">> \o Repeat("#", HeadingLevel(child.name)) \o <<" ">>
            \o process_elements(child) \o <<"\n">>
    ELSE IF child.name \in {"p", "div"}
    THEN (IF Strip(process_elements(child)) # <<>>
          THEN process_elements(child) \o <<"\n">> ELSE <<>>)
    ELSE IF child.name = "br" THEN <<"\n">>
    ELSE IF child.name \in {"ul", "ol"} THEN convert_list(child)
    ELSE IF child.name = "img"
    THEN <<"!", "[">> \o GetAttr(child, "alt", <<"image">>) \o <<"]", "(">>
            \o GetAttr(child, "src", <<>>) \o <<")">>
    ELSE IF child.name = "a"
    THEN (IF GetAttr(child, "href", <<>>) # <<>>
          THEN <<"[">> \o process_elements(child) \o <<"]", "(">>
                  \o GetAttr(child, "href", <<>>) \o <<")">>
          ELSE process_elements(child))
    ELSE IF child.name \in {"strong", "b"}
    THEN <<"*", "*">> \o process_elements(child) \o <<"*", "*">>
    ELSE IF child.name \in {"em", "i"}
    THEN <<"*">> \o process_elements(child) \o <<"*">>
    ELSE IF child.name = "code"
    THEN <<Backtick>> \o process_elements(child) \o <<Backtick>>
    ELSE IF child.name = "pre"
    THEN <<"\n", Backtick, Backtick, Backtick, "\n">> \o get_text(child) \o <<"\n", Backtick, Backtick, Backtick, "\n">>
    ELSE IF child.name = "blockquote"
    THEN LET ls     == SplitOn(process_elements(child), "\n", <<>>)
             kept   == SelectSeq(ls, LAMBDA l : Strip(l) # <<>>)
             quoted == Join(<<"\n">>, [i \in 1..Len(kept) |-> <<">", " ">> \o kept[i]])
         IN  <<"\n">> \o quoted \o <<"\n">>
    ELSE IF child.name = "hr" THEN <<"\n", "-", "-", "-", "\n">>
    ELSE IF Strip(process_elements(child)) # <<>> THEN process_elements(child)
    ELSE <<>>

\* the lines that _convert_list appends for the items from item i on
list_lines(list_elem, items, i) ==
    IF i > Len(items) THEN <<>>
    ELSE LET content_lines == SplitOn(Strip(process_elements(items[i])), "\n", <<>>)
             marker == IF list_elem.name = "ol" THEN <<ToString(i), ".", " ">> ELSE <<"-", " ">>
             rest   == SelectSeq(Tail(content_lines), LAMBDA l : Strip(l) # <<>>)
         IN  <<marker \o content_lines[1]>>
             \o [k \in 1..Len(rest) |-> <<" ", " ">> \o rest[k]]
             \o list_lines(list_elem, items, i + 1)

\* HtmlToMarkdownConverter._convert_list
convert_list(list_elem) ==
    LET items == SelectSeq(list_elem.kids, LAMBDA k : k.name = "li")
    IN  Join(<<"\n">>, list_lines(list_elem, items, 1)) \o <<"\n">>

IsNewline(t) == t = "\n"

\* a run of decimal digits (\d+): the digit characters and the words of digits
IsDigits(t) == t \in {"0", "1", "2", "3", "4", "5", "6", "7", "8", "9", "30", "41", "52"}

RECURSIVE WsRun(_)
\* the length of the run of whitespace at the start of s
WsRun(s) == IF s # <<>> /\ IsSpace(Head(s)) THEN 1 + WsRun(Tail(s)) ELSE 0

RECURSIVE CountNewlines(_, _)
\* the number of newlines among the first n characters of s
CountNewlines(s, n) ==
    IF n = 0 THEN 0 ELSE (IF s[n] = "\n" THEN 1 ELSE 0) + CountNewlines(s, n - 1)

RECURSIVE LastNewline(_, _)
\* the position of the last newline among the first n characters of s
LastNewline(s, n) == IF n = 0 \/ s[n] = "\n" THEN n ELSE LastNewline(s, n - 1)

\* (mutant) the blank lines are left as they are
collapse_blank_lines_never(s) == s

RECURSIVE collapse_blank_lines(_)
\* re.sub(r'\n\s*\n\s*\n+', '\n\n', content): a match starts at a newline
\* whose whitespace run holds three newlines or more and, being greedy,
\* ends at the last newline of that run
collapse_blank_lines(s) ==
    IF s = <<>> THEN <<>>
    ELSE IF Head(s) = "\n" /\ CountNewlines(s, WsRun(s)) >= 3
    THEN <<"\n", "\n">>
            \o collapse_blank_lines(SubSeq(s, LastNewline(s, WsRun(s)) + 1, Len(s)))
    ELSE <<Head(s)>> \o collapse_blank_lines(Tail(s))

RECURSIVE UntilClose(_)
\* the length of the longest prefix of s without ">" ([^>]+)
UntilClose(s) == IF s # <<>> /\ Head(s) # ">" THEN 1 + UntilClose(Tail(s)) ELSE 0

\* the words that stand for a text starting with http:// or https://
IsUrlStart(t) == t \in {"http://e.x", "https://e.x"}

RECURSIVE fix_links(_)
\* re.sub(r'<(https?://[^>]+)>', r'[\1](\1)', content)
fix_links(s) ==
    IF s = <<>> THEN <<>>
    ELSE IF /\ Head(s) = "<"
            /\ Len(s) >= 3
            /\ IsUrlStart(s[2])
            /\ UntilClose(Tail(s)) < Len(s) - 1
    THEN LET n   == UntilClose(Tail(s))
             url == SubSeq(s, 2, n + 1)
         IN  <<"[">> \o url \o <<"]", "(">> \o url \o <<")">>
                \o fix_links(SubSeq(s, n + 3, Len(s)))
    ELSE <<Head(s)>> \o fix_links(Tail(s))

RECURSIVE DigitRun(_)
DigitRun(s) == IF s # <<>> /\ IsDigits(Head(s)) THEN 1 + DigitRun(Tail(s)) ELSE 0

\* the length of a list marker (\d+\.|-|\*) followed by a blank at the
\* start of s, the blank included; 0 when there is none
MarkerLen(s) ==
    IF s = <<>> THEN 0
    ELSE IF DigitRun(s) > 0 /\ Len(s) >= DigitRun(s) + 2
             /\ s[DigitRun(s) + 1] = "." /\ s[DigitRun(s) + 2] = " "
    THEN DigitRun(s) + 2
    ELSE IF Head(s) \in {"-", "*"} /\ Len(s) >= 2 /\ s[2] = " " THEN 2
    ELSE 0

RECURSIVE blank_before_lists(_)
\* re.sub(r'([^\n])\n(\d+\.|-|\*) ', r'\1\n\n\2 ', content)
blank_before_lists(s) ==
    IF s = <<>> THEN <<>>
    ELSE IF /\ Head(s) # "\n"
            /\ Len(s) >= 2
            /\ s[2] = "\n"
            /\ MarkerLen(SubSeq(s, 3, Len(s))) > 0
    THEN LET n == MarkerLen(SubSeq(s, 3, Len(s)))
         IN  <<Head(s), "\n", "\n">> \o SubSeq(s, 3, n + 2)
                \o blank_before_lists(SubSeq(s, n + 3, Len(s)))
    ELSE <<Head(s)>> \o blank_before_lists(Tail(s))

\* HtmlToMarkdownConverter._clean_markdown
clean_markdown(content) ==
    Strip(blank_before_lists(fix_links(collapse_blank_lines(content))))

\* The blocks a note body is made of.
Blocks ==
    { Elem("h1", <<Text(<<"Plan">>)>>),
      Elem("p", <<Text(<<"Items:">>)>>),
      Elem("ul", <<Elem("li", <<Text(<<"A">>)>>), Elem("li", <<Text(<<"B">>)>>)>>),
      Elem("ol", <<Elem("li", <<Text(<<"A">>)>>), Elem("li", <<Text(<<"B">>)>>)>>),
      Elem("br", <<>>),
      Elem("hr", <<>>),
      Text(<<"\n", " ", " ">>),
      Elem("div", <<Elem("b", <<Text(<<"Note">>)>>), Text(<<" ", "<", "https://e.x", ">">>)>>) }

\* BeautifulSoup(html, 'xml') of a note body: the document node holding the
\* doctype and the en-note element with the blocks
Document(blocks) == Elem("[document]", <<Elem("#doctype", <<>>), Elem("en-note", blocks)>>)

RenderIdle ==
    /\ tree = <<>>
    /\ markdown = <<>>
    /\ converted = <<>>
    /\ rpc = "idle"

RenderInit ==
    /\ \E n \in 1..MaxBlocks : \E blocks \in [1..n -> Blocks] : tree = Document(blocks)
    /\ markdown = <<>>
    /\ converted = <<>>
    /\ rpc = "start"

\* HtmlToMarkdownConverter.convert (converter_type 'soup'): _convert_with_soup
convert ==
    /\ rpc = "start"
    /\ \E raw \in {process_elements(tree)} :
          /\ markdown' = raw
          /\ converted' = clean_markdown(raw)
    /\ rpc' = "done"
    /\ UNCHANGED <<tree, normVars, tableVars, writerVars, readerVars, exportVars>>

RenderNext == convert

\* Note bodies that hold one list: an item is a text, or a text followed by
\* a nested list of two items.
Li(kids) == Elem("li", kids)

NestedList(name) == Elem(name, <<Li(<<Text(<<"X">>)>>), Li(<<Text(<<"Y">>)>>)>>)

Items ==
    { Li(<<Text(<<"A">>)>>),
      Li(<<Text(<<"B">>)>>),
      Li(<<Text(<<"T">>), NestedList("ul")>>),
      Li(<<Text(<<"T">>), NestedList("ol")>>) }

ListInit ==
    /\ \E name \in {"ul", "ol"}, n \in 1..MaxItems :
          \E items \in [1..n -> Items] : tree = Document(<<Elem(name, items)>>)
    /\ markdown = <<>>
    /\ converted = <<>>
    /\ rpc = "start"

\* ------------------------------------------- writers/markdown_writer.py: model
\* File names are sequences of characters; a resource name is a sequence of
\* words ("img", ".png").
ASSETS_DIR_NAME == <<"assets">>
INVALID_FILENAME_CHARS == {"<", ">", ":", "\"", "/", "\\", "|", "?", "*"}

\* helpers.sanitize_filename
sanitize_filename(filename) ==
    Strip([i \in 1..Len(filename) |->
              IF filename[i] \in INVALID_FILENAME_CHARS THEN "_" ELSE filename[i]])

\* helpers.guess_extension: mimetypes.guess_extension, '.bin' when it knows none
guess_extension(mime_type) ==
    CASE mime_type = "image/png"       -> <<".png">>
      [] mime_type = "application/pdf" -> <<".pdf">>
      [] OTHER                         -> <<".bin">>

\* A resource: file_name is <<>> when the export gave none.
Resource(mime, data, hash, file_name) ==
    [mime |-> mime, data |-> data, hash |-> hash, file_name |-> file_name]

\* the name _process_resources stores a resource under
resource_file_name(resource) ==
    IF resource.file_name = <<>>
    THEN <<resource.hash>> \o guess_extension(resource.mime)
    ELSE resource.file_name

\* mime.startswith('image/')
IsImage(mime) == mime \in {"image/png"}

\* a variant of the replacement text that uses the image syntax for all
media_link_always_image(resource, path) ==
    <<"!", "[">> \o resource_file_name(resource) \o <<"]", "(">> \o path \o <<")">>

\* the replacement text of _replace_media_tag
media_link(resource, path) ==
    (IF IsImage(resource.mime) THEN <<"!">> ELSE <<>>)
        \o <<"[">> \o resource_file_name(resource) \o <<"]", "(">> \o path \o <<")">>

RECURSIVE MergeText(_)
\* adjacent strings of the content are one string to the parser
MergeText(kids) ==
    IF Len(kids) < 2 THEN kids
    ELSE IF kids[1].name = "#text" /\ kids[2].name = "#text"
    THEN MergeText(<<Text(kids[1].text \o kids[2].text)>> \o SubSeq(kids, 3, Len(kids)))
    ELSE <<kids[1]>> \o MergeText(Tail(kids))

RECURSIVE replace_media_tag(_, _, _)
\* MarkdownWriter._replace_media_tag: every <en-media hash="..."/> of the
\* resource becomes the link text
replace_media_tag(content, resource, path) ==
    IF content.name = "en-media" /\ GetAttr(content, "hash", <<>>) = <<resource.hash>>
    THEN Text(media_link(resource, path))
    ELSE [content EXCEPT !.kids =
             MergeText([i \in 1..Len(content.kids) |->
                           replace_media_tag(content.kids[i], resource, path)])]

\* open(asset_path, 'wb') raises when the name points into a directory that
\* does not exist
CanOpenAsset(file_name) == \A i \in 1..Len(file_name) : file_name[i] # "/"

RECURSIVE process_resources(_, _, _, _)
\* MarkdownWriter._process_resources from resource i on: the content so far,
\* the assets directory so far, and whether an exception ended the loop
process_resources(note, i, content, assets) ==
    IF i > Len(note.resources) THEN [content |-> content, assets |-> assets, ok |-> TRUE]
    ELSE LET resource  == note.resources[i]
             file_name == resource_file_name(resource)
         IN  IF ~CanOpenAsset(file_name)
             THEN [content |-> content, assets |-> assets, ok |-> FALSE]
             ELSE process_resources(note, i + 1,
                      replace_media_tag(content, resource,
                                        ASSETS_DIR_NAME \o <<"/">> \o file_name),
                      [n \in DOMAIN assets \cup {file_name} |->
                          IF n = file_name THEN resource.data ELSE assets[n]])

\* A datetime: whole seconds and the microseconds within the second.
DateTime(sec, micro) == [sec |-> sec, micro |-> micro]

\* the seconds a timestamp of this model can hold
Seconds == 0..1

\* helpers.format_timestamp: strftime(Config.TIMESTAMP_FORMAT) has no field
\* for the microseconds
format_timestamp(dt) == <<ToString(dt.sec), "Z">>

\* helpers.parse_timestamp: strptime, the default (now) for an empty or
\* malformed text
parse_timestamp(timestamp, now) ==
    IF timestamp = <<>> THEN now
    ELSE IF \E n \in Seconds : timestamp = <<ToString(n), "Z">>
    THEN DateTime(CHOOSE n \in Seconds : timestamp = <<ToString(n), "Z">>, 0)
    ELSE now

\* a header value that is absent, a list of texts, or one text
NoValue == [kind |-> "none", items |-> <<>>]
ListValue(items) == [kind |-> "list", items |-> items]
StrValue(chars) == [kind |-> "str", items |-> chars]

\* a variant of _create_metadata that leaves the tags out
create_metadata_without_tags(note) ==
    [title     |-> note.title,
     has_title |-> TRUE,
     created   |-> format_timestamp(note.created),
     updated   |-> format_timestamp(note.updated),
     tags      |-> NoValue]

\* MarkdownWriter._create_metadata (author, source and notebook are copied
\* like the title)
create_metadata(note) ==
    [title     |-> note.title,
     has_title |-> TRUE,
     created   |-> format_timestamp(note.created),
     updated   |-> format_timestamp(note.updated),
     tags      |-> IF note.tags # <<>> THEN ListValue(note.tags) ELSE NoValue]

RECURSIVE RFind(_, _, _)
\* name.rfind(c) over the first n characters, 0 when there is none
RFind(name, c, n) == IF n = 0 \/ name[n] = c THEN n ELSE RFind(name, c, n - 1)

\* Path.suffix
suffix(name) ==
    LET i == RFind(name, ".", Len(name))
    IN  IF 1 < i /\ i < Len(name) THEN SubSeq(name, i, Len(name)) ELSE <<>>

\* Path.stem
stem(name) == SubSeq(name, 1, Len(name) - Len(suffix(name)))

RECURSIVE next_free(_, _, _)
\* the loop of _get_unique_filepath from the given counter on
next_free(name, counter, files) ==
    LET new_path == stem(name) \o <<"_", ToString(counter)>> \o suffix(name)
    IN  IF new_path \notin files THEN new_path ELSE next_free(name, counter + 1, files)

\* MarkdownWriter._get_unique_filepath
get_unique_filepath(filepath, files) ==
    IF filepath \notin files THEN filepath ELSE next_free(filepath, 1, files)

MediaTag(hash) == ElemA("en-media", << <<"hash", <<hash>> >> >>, <<>>)

\* A note: its content is a paragraph and one media tag per resource.
Note(title, resources) ==
    [title     |-> title,
     content   |-> Document(<<Elem("p", <<Text(<<"Items:">>)>>)>>
                       \o [i \in 1..Len(resources) |-> MediaTag(resources[i].hash)]),
     created   |-> DateTime(0, 0),
     updated   |-> DateTime(0, 0),
     tags      |-> <<>>,
     resources |-> resources]

Titles == { <<"a">>, <<"a", ":">>, <<"a", "_", "1">>, <<>> }

ResourceLists ==
    { <<>>,
      <<Resource("image/png", "bytes1", "h1", <<"img", ".png">>)>>,
      <<Resource("image/png", "bytes2", "h2", <<"img", ".png">>)>>,
      <<Resource("application/pdf", "bytes1", "h1", <<>>)>>,
      <<Resource("image/png", "bytes1", "h1", <<"img", ".png">>),
        Resource("image/png", "bytes2", "h2", <<"x", "/", "img", ".png">>)>> }

Notes == { Note(t, rs) : t \in Titles, rs \in ResourceLists }

NoFiles == [n \in {} |-> <<>>]

\* before the first call
NoCall ==
    [title |-> <<>>, outcome |-> "none", filepath |-> <<>>,
     note |-> Note(<<>>, <<>>), body |-> Elem("[document]", <<>>)]

WriterIdle ==
    /\ md_files = NoFiles
    /\ asset_files = NoFiles
    /\ calls = 0
    /\ last_call = NoCall
    /\ wpc = "idle"

\* MarkdownWriter.__init__: the output directory and its assets directory
WriterInit ==
    /\ md_files = NoFiles
    /\ asset_files = NoFiles
    /\ calls = 0
    /\ last_call = NoCall
    /\ wpc = "writers"

\* (mutant) no except clause: the exception of a failed step leaves write
write_returns_on_success(ok) == ok

\* lines 27 and 52-53: the exception of a failed step is caught and logged,
\* so write returns to its caller whether its steps succeeded (ok) or not
write_returns(ok) == TRUE

\* MarkdownWriter.write(note)
WriteOne(note) ==
    /\ \E res \in {process_resources(note, 1, note.content, asset_files)} :
          /\ asset_files' = res.assets
          /\ wpc' = IF write_returns(res.ok) THEN wpc ELSE "raised"
          /\ IF res.ok
             THEN \E filepath \in {get_unique_filepath(
                                      sanitize_filename(note.title) \o <<".", "m", "d">>,
                                      DOMAIN md_files)} :
                    /\ md_files' =
                          [n \in DOMAIN md_files \cup {filepath} |->
                              IF n = filepath
                              THEN [metadata |-> create_metadata(note),
                                    content  |-> clean_markdown(process_elements(res.content))]
                              ELSE md_files[n]]
                    /\ last_call' = [title |-> note.title, outcome |-> "saved",
                                    filepath |-> filepath, note |-> note,
                                    body |-> res.content]
             ELSE /\ md_files' = md_files
                  /\ last_call' = [title |-> note.title, outcome |-> "failed",
                                    filepath |-> <<>>, note |-> note,
                                    body |-> res.content]
    /\ calls' = calls + 1
    /\ UNCHANGED <<normVars, tableVars, renderVars, readerVars, exportVars>>

\* MarkdownWriter.write for one note (BaseWriter.write_all calls it per note)
write ==
    /\ wpc = "writers"
    /\ calls < MaxNotes
    /\ \E note \in Notes : WriteOne(note)

WriterNext == write

\* ------------------------------------------------------------ mark.py: model
\* mark.MarkdownWriter._safe_filename
safe_filename(filename) ==
    Strip([i \in 1..Len(filename) |->
              IF filename[i] \in {"<", ">", ":", "\"", "/", "\\", "|", "?", "*"}
              THEN "_" ELSE filename[i]])

\* mimetypes.guess_extension(resource.mime) or ''
mark_extension(mime_type) ==
    CASE mime_type = "image/png"       -> <<".png">>
      [] mime_type = "application/pdf" -> <<".pdf">>
      [] OTHER                         -> <<>>

RECURSIVE mark_process_resources(_, _, _, _)
\* mark.MarkdownWriter._process_resources from resource i on: every resource
\* is stored under its hash and extension
mark_process_resources(note, i, content, assets) ==
    IF i > Len(note.resources) THEN [content |-> content, assets |-> assets, ok |-> TRUE]
    ELSE LET given     == note.resources[i]
             resource  == [given EXCEPT
                              !.file_name = <<given.hash>> \o mark_extension(given.mime)]
             file_name == resource.file_name
         IN  mark_process_resources(note, i + 1,
                 replace_media_tag(content, resource,
                                   ASSETS_DIR_NAME \o <<"/">> \o file_name),
                 [n \in DOMAIN assets \cup {file_name} |->
                     IF n = file_name THEN resource.data ELSE assets[n]])

\* mark.MarkdownWriter.__init__, as Converter.enex_to_markdown constructs it
MarkInit ==
    /\ md_files = NoFiles
    /\ asset_files = NoFiles
    /\ calls = 0
    /\ last_call = NoCall
    /\ wpc = "mark"

\* mark.MarkdownWriter.write_note for one note (save_all calls it per note);
\* the file holds the metadata and the rendering of the processed content,
\* kept here as the processed content itself
write_note ==
    /\ wpc = "mark"
    /\ calls < MaxNotes
    /\ \E note \in Notes :
       \E res \in {mark_process_resources(note, 1, note.content, asset_files)} :
       \E file_path \in {safe_filename(note.title) \o <<".", "m", "d">>} :
          /\ asset_files' = res.assets
          /\ md_files' =
                [n \in DOMAIN md_files \cup {file_path} |->
                    IF n = file_path
                    THEN [metadata |-> [title |-> note.title], content |-> res.content]
                    ELSE md_files[n]]
          /\ last_call' = [title |-> note.title, outcome |-> "saved",
                            filepath |-> file_path, note |-> note, body |-> res.content]
    /\ calls' = calls + 1
    /\ UNCHANGED <<wpc, normVars, tableVars, renderVars, readerVars, exportVars>>

MarkNext == write_note

\* ------------------------------------------ parsers/markdown_parser.py: model
DEFAULT_RESOURCE_DIRS == <<"assets", "images", "attachments">>

\* MarkdownParser._init_resource_paths, relative to the directory of the file
init_resource_paths ==
    << <<>> >> \o [i \in 1..Len(DEFAULT_RESOURCE_DIRS) |-> <<DEFAULT_RESOURCE_DIRS[i], "/">>]

\* helpers.calculate_hash (md5 of the bytes)
calculate_hash(data) ==
    CASE data = "bytes1" -> "h1"
      [] data = "bytes2" -> "h2"
      [] OTHER           -> "h3"

RECURSIVE find_in(_, _, _, _)
find_in(filename, search_paths, i, files) ==
    IF i > Len(search_paths) THEN None
    ELSE IF search_paths[i] \o filename \in files THEN search_paths[i] \o filename
    ELSE find_in(filename, search_paths, i + 1, files)

\* helpers.find_file: the first search path below which the file exists
find_file(filename, search_paths, files) == find_in(filename, search_paths, 1, files)

\* Path.name
BaseName(path) == SubSeq(path, RFind(path, "/", Len(path)) + 1, Len(path))

\* mimetypes.guess_type(path)[0] or 'application/octet-stream'
guess_type(path) ==
    CASE path[Len(path)] = ".png" -> "image/png"
      [] path[Len(path)] = ".pdf" -> "application/pdf"
      [] OTHER                    -> "application/octet-stream"

\* MarkdownParser._load_resource: the Resource, or None and a warning
load_resource(file_path, files) ==
    LET full_path == find_file(file_path, init_resource_paths, DOMAIN files)
    IN  IF full_path = None
        THEN [found |-> FALSE, resource |-> Resource("", "", "", <<>>)]
        ELSE [found    |-> TRUE,
              resource |-> Resource(guess_type(full_path), files[full_path],
                                    calculate_hash(files[full_path]),
                                    BaseName(full_path))]

RECURSIVE RunUntil(_, _)
\* the length of the longest prefix of s without the character c
RunUntil(s, c) == IF s # <<>> /\ Head(s) # c THEN 1 + RunUntil(Tail(s), c) ELSE 0

\* [text](path) at the start of s: \[([^\]]*)\]\(([^)]+)\); len 0 when s
\* does not start with one
MatchRef(s) ==
    LET nomatch == [len |-> 0, alt |-> <<>>, path |-> <<>>]
    IN  IF s = <<>> \/ Head(s) # "[" THEN nomatch
        ELSE LET a == RunUntil(Tail(s), "]")
             IN  IF Len(s) < a + 3 \/ s[a + 2] # "]" \/ s[a + 3] # "(" THEN nomatch
                 ELSE LET rest == SubSeq(s, a + 4, Len(s))
                          b    == RunUntil(rest, ")")
                      IN  IF b = 0 \/ b = Len(rest) THEN nomatch
                          ELSE [len  |-> a + b + 4,
                                alt  |-> SubSeq(s, 2, a + 1),
                                path |-> SubSeq(rest, 1, b)]

\* ![alt](path) at the start of s
MatchImage(s) ==
    IF s # <<>> /\ Head(s) = "!" /\ MatchRef(Tail(s)).len > 0
    THEN [MatchRef(Tail(s)) EXCEPT !.len = @ + 1]
    ELSE [len |-> 0, alt |-> <<>>, path |-> <<>>]

RECURSIVE image_paths(_)
\* group 2 of every match of re.finditer(r'!\[([^\]]*)\]\(([^)]+)\)', content)
image_paths(content) ==
    IF content = <<>> THEN <<>>
    ELSE IF MatchImage(content).len > 0
    THEN <<MatchImage(content).path>>
            \o image_paths(SubSeq(content, MatchImage(content).len + 1, Len(content)))
    ELSE image_paths(Tail(content))

RECURSIVE load_all_first_failure_ends(_, _, _)
\* a variant of the loop in which the first missing file ends the loading
load_all_first_failure_ends(paths, i, files) ==
    IF i > Len(paths) THEN [resources |-> <<>>, warnings |-> <<>>]
    ELSE LET loaded == load_resource(paths[i], files)
             rest   == load_all_first_failure_ends(paths, i + 1, files)
         IN  IF loaded.found
             THEN [rest EXCEPT !.resources = <<loaded.resource>> \o @]
             ELSE [resources |-> <<>>, warnings |-> <<paths[i]>>]

RECURSIVE load_all(_, _, _)
\* the loop of MarkdownParser._parse_resources over the matched paths
load_all(paths, i, files) ==
    IF i > Len(paths) THEN [resources |-> <<>>, warnings |-> <<>>]
    ELSE LET loaded == load_resource(paths[i], files)
             rest   == load_all(paths, i + 1, files)
         IN  IF loaded.found
             THEN [rest EXCEPT !.resources = <<loaded.resource>> \o @]
             ELSE [rest EXCEPT !.warnings = <<paths[i]>> \o @]

\* MarkdownParser._parse_resources
parse_resources(content, files) == load_all(image_paths(content), 1, files)

RECURSIVE inline_html(_)
\* Markdown.convert on the inline text: an image becomes an img element, a
\* link an a element, the rest is text
inline_html(content) ==
    IF content = <<>> THEN <<>>
    ELSE IF MatchImage(content).len > 0
    THEN <<ElemA("img", << <<"alt", MatchImage(content).alt>>,
                           <<"src", MatchImage(content).path>> >>, <<>>)>>
            \o inline_html(SubSeq(content, MatchImage(content).len + 1, Len(content)))
    ELSE IF MatchRef(content).len > 0
    THEN <<ElemA("a", << <<"href", MatchRef(content).path>> >>,
                 <<Text(MatchRef(content).alt)>>)>>
            \o inline_html(SubSeq(content, MatchRef(content).len + 1, Len(content)))
    ELSE <<Text(<<Head(content)>>)>> \o inline_html(Tail(content))

\* self.html_converter.convert(post.content): one paragraph of inline html
markdown_to_html(content) ==
    Elem("[document]", <<Elem("p", MergeText(inline_html(content)))>>)

RECURSIVE IsPrefix(_, _)
IsPrefix(a, b) ==
    \/ a = <<>>
    \/ b # <<>> /\ Head(a) = Head(b) /\ IsPrefix(Tail(a), Tail(b))

RECURSIVE IsSubstring(_, _)
\* a in b
IsSubstring(a, b) == IsPrefix(a, b) \/ (b # <<>> /\ IsSubstring(a, Tail(b)))

\* the en-media element that _replace_resource_ref builds
MediaElem(resource) ==
    ElemA("en-media", << <<"type", <<resource.mime>> >>, <<"hash", <<resource.hash>> >> >>, <<>>)

RECURSIVE replace_resource_ref_unhashed(_, _)
\* a variant whose en-media element carries no hash of the resource
replace_resource_ref_unhashed(html, resource) ==
    IF /\ html.name = "img"
       /\ resource.file_name # <<>>
       /\ IsSubstring(resource.file_name, GetAttr(html, "src", <<>>))
    THEN ElemA("en-media", << <<"type", <<resource.mime>> >>, <<"hash", <<"">> >> >>, <<>>)
    ELSE [html EXCEPT !.kids =
             [i \in 1..Len(html.kids) |->
                 replace_resource_ref_unhashed(html.kids[i], resource)]]

RECURSIVE replace_resource_ref(_, _)
\* MarkdownParser._replace_resource_ref: every img whose src contains the
\* file name of the resource becomes the resource's en-media element
replace_resource_ref(html, resource) ==
    IF /\ html.name = "img"
       /\ resource.file_name # <<>>
       /\ IsSubstring(resource.file_name, GetAttr(html, "src", <<>>))
    THEN MediaElem(resource)
    ELSE [html EXCEPT !.kids =
             [i \in 1..Len(html.kids) |-> replace_resource_ref(html.kids[i], resource)]]

RECURSIVE replace_all_refs(_, _, _)
\* the loop of MarkdownParser.parse over the loaded resources
replace_all_refs(html, resources, i) ==
    IF i > Len(resources) THEN html
    ELSE replace_all_refs(replace_resource_ref(html, resources[i]), resources, i + 1)

\* MarkdownParser._parse_tags
parse_tags(tags) ==
    IF tags.kind = "str"
    THEN LET pieces  == SplitOn(tags.items, ",", <<>>)
             trimmed == [i \in 1..Len(pieces) |-> Strip(pieces[i])]
         IN  SelectSeq(trimmed, LAMBDA t : t # <<>>)
    ELSE IF tags.kind = "list" THEN tags.items
    ELSE <<>>

\* Path.stem of the markup file
source_stem(name) == stem(name)

\* MarkdownParser.parse for a readable file: the Note and the warnings
markdown_parse(file, files, now1, now2) ==
    LET metadata == file.metadata
        loaded   == parse_resources(file.content, files)
    IN  [note |->
            [title     |-> IF metadata.has_title THEN metadata.title
                           ELSE source_stem(file.name),
             content   |-> replace_all_refs(markdown_to_html(file.content),
                                            loaded.resources, 1),
             created   |-> parse_timestamp(metadata.created, now1),
             updated   |-> parse_timestamp(metadata.updated, now2),
             tags      |-> parse_tags(metadata.tags),
             resources |-> loaded.resources],
         warnings |-> loaded.warnings]

\* The paths a body refers to and the files that may exist.
RefPaths == { <<"assets", "/", "a", ".png">>,
              <<"assets", "/", "x", "a", ".png">>,
              <<"a", ".png">> }

ImageRef(path) == <<"!", "[", "pic", "]", "(">> \o path \o <<")">>
LinkRef(path) == <<"[", "doc", "]", "(">> \o path \o <<")">>

Refs == { ImageRef(p) : p \in RefPaths } \cup { LinkRef(<<"assets", "/", "a", ".png">>) }

Body(refs) == <<"Items:", "\n">> \o Join(<<"\n">>, refs)

DiskFiles ==
    { << <<"assets", "/", "a", ".png">>, "bytes1" >>,
      << <<"assets", "/", "x", "a", ".png">>, "bytes2" >>,
      << <<"images", "/", "a", ".png">>, "bytes2" >> }

\* the directory holding the given <<path, bytes>> pairs
DiskOf(pairs) ==
    [p \in { pair[1] : pair \in pairs } |->
        (CHOOSE pair \in pairs : pair[1] = p)[2]]

Headers ==
    { [title |-> <<"a">>, has_title |-> TRUE,
       created |-> <<"1", "Z">>, updated |-> <<"0", "Z">>,
       tags |-> ListValue(<< <<"t1">>, <<"t2">> >>)],
      [title |-> <<>>, has_title |-> FALSE,
       created |-> <<>>, updated |-> <<"x">>,
       tags |-> StrValue(<<"t1", ",", " ", "t1">>)],
      [title |-> <<"a">>, has_title |-> TRUE,
       created |-> <<"0", "Z">>, updated |-> <<"1", "Z">>,
       tags |-> ListValue(<< <<"t1">>, <<"t1">> >>)] }

\* the values datetime.now() may give
Nows == { DateTime(0, 5), DateTime(1, 0) }

NoNote ==
    [title |-> <<>>, content |-> Elem("[document]", <<>>),
     created |-> DateTime(0, 0), updated |-> DateTime(0, 0),
     tags |-> <<>>, resources |-> <<>>]

NoPost ==
    [name |-> <<>>, readable |-> FALSE, content |-> <<>>,
     metadata |-> [title |-> <<>>, has_title |-> FALSE, created |-> <<>>,
                   updated |-> <<>>, tags |-> NoValue]]

ReaderIdle ==
    /\ post = NoPost
    /\ disk = NoFiles
    /\ read_note = NoNote
    /\ warnings = <<>>
    /\ mpc = "idle"

\* MarkdownParser.__init__ on a markup file and the files around it
ReaderInit ==
    /\ \E n \in 1..MaxRefs : \E refs \in [1..n -> Refs] :
       \E header \in Headers : \E readable \in BOOLEAN :
          post = [name |-> <<"n", ".", "m", "d">>, readable |-> readable,
                  content |-> Body(refs), metadata |-> header]
    /\ \E pairs \in SUBSET DiskFiles : disk = DiskOf(pairs)
    /\ read_note = NoNote
    /\ warnings = <<>>
    /\ mpc = "start"

\* MarkdownParser.parse: the Note, or None when reading the file raised
parse ==
    /\ mpc = "start"
    /\ IF post.readable
       THEN \E now1 \in Nows : \E now2 \in Nows :
            \E res \in {markdown_parse(post, disk, now1, now2)} :
               /\ read_note' = res.note
               /\ warnings' = res.warnings
               /\ mpc' = "done"
       ELSE /\ read_note' = NoNote
            /\ warnings' = <<>>
            /\ mpc' = "none"
    /\ UNCHANGED <<post, disk, normVars, tableVars, renderVars, writerVars, exportVars>>

ReaderNext == parse

\* ---------------------------------------------- parsers/enex_parser.py: model
\* A <resource> record: payload is the text of <data> (<<>> when the element
\* is missing or empty), hash the hash attribute of <data> ("" when absent),
\* mime the text of <mime> ("" when the element is missing), file_name the
\* text of <file-name> (<<>> when there is none).
ResourceElem(payload, hash, mime, file_name) ==
    [payload |-> payload, hash |-> hash, mime |-> mime, file_name |-> file_name]

\* A <note> record.
NoteElem(has_title, title, content, created, updated, tags, resources) ==
    [has_title |-> has_title, title |-> title, content |-> content,
     created |-> created, updated |-> updated, tags |-> tags,
     resources |-> resources]

\* base64.b64encode
b64encode(data) == <<"b64", data>>

\* base64.b64decode: <<"b64", bytes>> is the encoding of bytes, <<"b64">> an
\* encoding cut short (b64decode raises: incorrect padding), <<"!">> a text
\* without any character of the alphabet (b64decode drops such characters
\* and returns no bytes)
b64valid(text) == (Len(text) = 2 /\ text[1] = "b64") \/ text = <<"!">>
b64decode(text) == IF text[1] = "b64" THEN text[2] ELSE ""

\* EnexParser._parse_resource: the Resource, or None
enex_parse_resource(elem) ==
    IF elem.payload = <<>> \/ ~b64valid(elem.payload)
    THEN [some |-> FALSE, resource |-> Resource("", "", "", <<>>)]
    ELSE LET data == b64decode(elem.payload)
         IN  [some     |-> TRUE,
              resource |-> Resource(
                  IF elem.mime = "" THEN "application/octet-stream" ELSE elem.mime,
                  data,
                  IF elem.hash # "" THEN elem.hash ELSE calculate_hash(data),
                  elem.file_name)]

RECURSIVE enex_resources(_, _)
\* the loop of _parse_note over the <resource> records from record i on
enex_resources(elems, i) ==
    IF i > Len(elems) THEN <<>>
    ELSE (IF enex_parse_resource(elems[i]).some
          THEN <<enex_parse_resource(elems[i]).resource>> ELSE <<>>)
            \o enex_resources(elems, i + 1)

\* the title EnexParser gives a note without a <title> (enex_parser.py:38)
DefaultTitle == <<"untitled">>

\* EnexParser._parse_note
enex_parse_note(elem, now1, now2) ==
    [title     |-> IF elem.has_title THEN elem.title ELSE DefaultTitle,
     content   |-> elem.content,
     created   |-> parse_timestamp(elem.created, now1),
     updated   |-> parse_timestamp(elem.updated, now2),
     tags      |-> SelectSeq(elem.tags, LAMBDA t : t # <<>>),
     resources |-> enex_resources(elem.resources, 1)]

NoDoc == [wellformed |-> FALSE, notes |-> <<>>]

ExportIdle ==
    /\ export_doc = NoDoc
    /\ parsed = <<>>
    /\ exported = <<>>
    /\ root = <<>>
    /\ written = <<>>
    /\ saves = 0
    /\ epc = "idle"

\* EnexParser.parse
enex_parse ==
    /\ epc = "start"
    /\ IF export_doc.wellformed
       THEN \E now1 \in Nows : \E now2 \in Nows :
               /\ parsed' = [i \in 1..Len(export_doc.notes) |->
                                enex_parse_note(export_doc.notes[i], now1, now2)]
               /\ epc' = "done"
       ELSE /\ parsed' = <<>>
            /\ epc' = "raised"
    /\ UNCHANGED <<export_doc, exported, documentVars, normVars, tableVars, renderVars,
                   writerVars, readerVars>>

\* ---------------------------------------------- writers/enex_writer.py: model
\* EnexWriter._create_resource_element
create_resource_element(resource) ==
    ResourceElem(b64encode(resource.data), resource.hash, resource.mime,
                 resource.file_name)

\* EnexWriter._create_enml_content: the content as the string of an en-note
create_enml_content(content) == [doctype |-> "en-note", string |-> content]

\* EnexWriter._create_note_element
create_note_element(note) ==
    NoteElem(TRUE, note.title, create_enml_content(note.content),
             format_timestamp(note.created), format_timestamp(note.updated),
             note.tags,
             [i \in 1..Len(note.resources) |-> create_resource_element(note.resources[i])])

\* (mutant) the new record is put before the records of the document
root_prepend(elems, note_elem) == <<note_elem>> \o elems

\* line 34: self.root.append(note_elem)
root_append(elems, note_elem) == Append(elems, note_elem)

\* The notes handed to EnexWriter: with and without tags and resources.
EnexNotes ==
    { [Note(<<"a">>, <<>>) EXCEPT !.tags = << <<"t1">>, <<"t2">> >>],
      Note(<<"b">>, <<Resource("image/png", "bytes1", "h1", <<"img", ".png">>),
                      Resource("application/pdf", "bytes2", "h2", <<>>)>>),
      [Note(<<"a">>, <<Resource("image/png", "bytes2", "h2", <<>>)>>)
          EXCEPT !.tags = << <<"t2">> >>] }

\* EnexWriter.__init__: an empty document in memory, no output file yet
EnexWriterInit ==
    /\ export_doc = NoDoc
    /\ parsed = <<>>
    /\ exported = <<>>
    /\ root = <<>>
    /\ written = <<>>
    /\ saves = 0
    /\ epc = "writer"

\* EnexWriter.write(note)
enex_write_note ==
    /\ epc = "writer"
    /\ Len(written) < MaxNotes
    /\ \E note \in EnexNotes :
          /\ root' = root_append(root, create_note_element(note))
          /\ written' = Append(written, note)
    /\ UNCHANGED <<export_doc, parsed, exported, saves, epc, normVars, tableVars,
                   renderVars, writerVars, readerVars>>

\* EnexWriter.save(): the document in memory is written to the output file
enex_save ==
    /\ epc = "writer"
    /\ saves < MaxNotes
    /\ exported' = root
    /\ saves' = saves + 1
    /\ UNCHANGED <<export_doc, parsed, root, written, epc, normVars, tableVars,
                   renderVars, writerVars, readerVars>>

RECURSIVE append_all(_, _)
\* the loop of lines 44-45 over the notes
append_all(elems, notes) ==
    IF notes = <<>> THEN elems
    ELSE append_all(root_append(elems, create_note_element(Head(notes))), Tail(notes))

\* EnexWriter.write_all(notes)
enex_write_all ==
    /\ epc = "writer"
    /\ saves < MaxNotes
    /\ \E n \in 0..(MaxNotes - Len(written)) : \E notes \in [1..n -> EnexNotes] :
          /\ root' = append_all(root, notes)
          /\ written' = written \o notes
    /\ exported' = root'
    /\ saves' = saves + 1
    /\ UNCHANGED <<export_doc, parsed, epc, normVars, tableVars,
                   renderVars, writerVars, readerVars>>

EnexWriterNext == enex_write_note \/ enex_save \/ enex_write_all

\* ------------------------------------------------ EnexParser.parse, alone
\* Note.add_tag
add_tag(tags, tag) ==
    IF tag # <<>> /\ \A i \in 1..Len(tags) : tags[i] # tag
    THEN Append(tags, tag) ELSE tags

\* the parse of an empty content text
EmptyContent == Elem("[document]", <<>>)

\* a body of one paragraph
PlainContent == Document(<<Elem("p", <<Text(<<"Items:">>)>>)>>)

\* <note/>: a record without any child
EmptyNoteElem == NoteElem(FALSE, <<>>, EmptyContent, <<>>, <<>>, <<>>, <<>>)

NoteElems ==
    { NoteElem(TRUE, <<"a">>, PlainContent, <<"1", "Z">>, <<"0", "Z">>,
               << <<"t1">>, <<"t2">> >>,
               <<ResourceElem(b64encode("bytes1"), "h1", "image/png", <<"img", ".png">>),
                 ResourceElem(<<"b64">>, "", "image/png", <<>>),
                 ResourceElem(b64encode("bytes2"), "", "", <<>>)>>),
      EmptyNoteElem,
      NoteElem(TRUE, <<"b">>, PlainContent, <<"x">>, <<>>,
               << <<"t1">>, <<>>, <<"t1">> >>,
               <<ResourceElem(<<>>, "", "image/png", <<>>),
                 ResourceElem(<<"!">>, "", "image/png", <<>>)>>) }

\* EnexParser.__init__ on an export file
EnexInit ==
    /\ \E wellformed \in BOOLEAN : \E n \in 1..MaxRecords :
       \E notes \in [1..n -> NoteElems] :
          export_doc = [wellformed |-> wellformed, notes |-> notes]
    /\ parsed = <<>>
    /\ exported = <<>>
    /\ root = <<>>
    /\ written = <<>>
    /\ saves = 0
    /\ epc = "start"

\* note.add_tag(tag) on one of the returned notes
AddTag ==
    /\ epc = "done"
    /\ wpc = "idle"
    /\ \E i \in 1..Len(parsed) : \E tag \in { <<>>, <<"t1">>, <<"t3">> } :
          parsed' = [parsed EXCEPT ![i].tags = add_tag(@, tag)]
    /\ UNCHANGED <<export_doc, exported, documentVars, epc, normVars, tableVars,
                   renderVars, writerVars, readerVars>>

EnexNext == enex_parse \/ AddTag

\* ------------------------------------ export -> markup -> export, one note
\* The resource records of the exports: a named image whose hash attribute
\* is the hash of its bytes, an unnamed image without a hash attribute, a
\* named document, and a named image with a hash attribute of its own.
TripResources ==
    { <<>>,
      <<ResourceElem(b64encode("bytes1"), "h1", "image/png", <<"img", ".png">>)>>,
      <<ResourceElem(b64encode("bytes2"), "", "image/png", <<>>)>>,
      <<ResourceElem(b64encode("bytes1"), "h1", "application/pdf", <<"doc", ".pdf">>)>>,
      <<ResourceElem(b64encode("bytes2"), "hx", "image/png", <<"pic", ".png">>)>>,
      <<ResourceElem(b64encode("bytes1"), "h1", "image/png", <<"img", ".png">>),
        ResourceElem(b64encode("bytes2"), "", "image/png", <<>>)>> }

\* the body of a note that shows each of its resources once
TripContent(resources) ==
    Document(<<Elem("p", <<Text(<<"Items:">>)>>)>>
        \o [i \in 1..Len(resources) |->
               MediaTag(IF resources[i].hash # "" THEN resources[i].hash
                        ELSE calculate_hash(b64decode(resources[i].payload)))])

TripTags == { <<>>, << <<"t1">>, <<"t2">> >>, << <<"t2">>, <<>>, <<"t1">> >> }

TripInit ==
    /\ \E has_title \in BOOLEAN : \E created \in { <<"1", "Z">>, <<>> } :
       \E tags \in TripTags : \E resources \in TripResources :
          export_doc = [wellformed |-> TRUE,
                        notes |-> <<NoteElem(has_title,
                                             IF has_title THEN <<"a">> ELSE <<>>,
                                             TripContent(resources),
                                             created, <<"0", "Z">>, tags, resources)>>]
    /\ parsed = <<>>
    /\ exported = <<>>
    /\ root = <<>>
    /\ written = <<>>
    /\ saves = 0
    /\ epc = "start"
    /\ md_files = NoFiles
    /\ asset_files = NoFiles
    /\ calls = 0
    /\ last_call = NoCall
    /\ wpc = "trip"
    /\ ReaderIdle

\* BaseWriter.write_all of MarkdownWriter over the parsed notes, one per step
write_parsed ==
    /\ wpc = "trip"
    /\ epc = "done"
    /\ calls < Len(parsed)
    /\ WriteOne(parsed[calls + 1])

\* the files below the output directory, as the reader finds them
WrittenFiles ==
    [p \in { ASSETS_DIR_NAME \o <<"/">> \o n : n \in DOMAIN asset_files } |->
        asset_files[SubSeq(p, 3, Len(p))]]

\* MarkdownParser.__init__ on the markup file that was written last
open_written ==
    /\ wpc = "trip"
    /\ mpc = "idle"
    /\ calls > 0
    /\ calls = Len(parsed)
    /\ last_call.outcome = "saved"
    /\ post' = [name     |-> last_call.filepath,
                readable |-> TRUE,
                content  |-> md_files[last_call.filepath].content,
                metadata |-> md_files[last_call.filepath].metadata]
    /\ disk' = WrittenFiles
    /\ mpc' = "start"
    /\ UNCHANGED <<read_note, warnings, normVars, tableVars, renderVars,
                   writerVars, exportVars>>

\* EnexWriter.write_all of the note that was read back
enex_write ==
    /\ wpc = "trip"
    /\ mpc = "done"
    /\ exported = <<>>
    /\ root' = root_append(root, create_note_element(read_note))
    /\ written' = Append(written, read_note)
    /\ saves' = saves + 1
    /\ exported' = root'
    /\ UNCHANGED <<export_doc, parsed, epc, normVars, tableVars, renderVars,
                   writerVars, readerVars>>

TripNext == enex_parse \/ write_parsed \/ open_written \/ parse \/ enex_write

\* ---------------------------------------------------------- specifications
\* EnexWriter: write, save and write_all
InitEnexWriter ==
    EnexWriterInit /\ NormIdle /\ TableIdle /\ RenderIdle /\ WriterIdle /\ ReaderIdle
SpecEnexWriter == InitEnexWriter /\ [][EnexWriterNext]_vars

\* the normalizer on tables with merged cells
InitNorm == NormInit /\ TableIdle /\ RenderIdle /\ WriterIdle /\ ReaderIdle /\ ExportIdle
SpecNorm == InitNorm /\ [][NormNext]_vars

\* html_table_to_markdown on table elements without merged cells
InitTable == TableInit /\ NormIdle /\ RenderIdle /\ WriterIdle /\ ReaderIdle /\ ExportIdle
SpecTable == InitTable /\ [][TableNext]_vars

\* html_table_to_markdown and markdown_table_to_html, one after the other
InitTableTrip == TripTableInit /\ NormIdle /\ RenderIdle /\ WriterIdle /\ ReaderIdle /\ ExportIdle
SpecTableTrip == InitTableTrip /\ [][TableTripNext]_vars

\* html_table_to_markdown on table elements with span attributes
InitSpanTable == SpanTableInit /\ NormIdle /\ RenderIdle /\ WriterIdle /\ ReaderIdle /\ ExportIdle
SpecSpanTable == InitSpanTable /\ [][TableNext]_vars

\* HtmlToMarkdownConverter.convert on a note body that is one list
InitList == ListInit /\ NormIdle /\ TableIdle /\ WriterIdle /\ ReaderIdle /\ ExportIdle
SpecList == InitList /\ [][RenderNext]_vars

\* HtmlToMarkdownConverter.convert with the soup renderer
InitRender == RenderInit /\ NormIdle /\ TableIdle /\ WriterIdle /\ ReaderIdle /\ ExportIdle
SpecRender == InitRender /\ [][RenderNext]_vars

\* writers.MarkdownWriter: a session of write calls into one output directory
InitWriter == WriterInit /\ NormIdle /\ TableIdle /\ RenderIdle /\ ReaderIdle /\ ExportIdle
SpecWriter == InitWriter /\ [][WriterNext]_vars

\* Converter.enex_to_markdown: mark.MarkdownWriter.save_all over the notes
InitMark == MarkInit /\ NormIdle /\ TableIdle /\ RenderIdle /\ ReaderIdle /\ ExportIdle
SpecMark == InitMark /\ [][MarkNext]_vars

\* MarkdownParser.parse of one markup file
InitReader == ReaderInit /\ NormIdle /\ TableIdle /\ RenderIdle /\ WriterIdle /\ ExportIdle
SpecReader == InitReader /\ [][ReaderNext]_vars

\* EnexParser.parse, MarkdownWriter.write, MarkdownParser.parse, EnexWriter
InitTrip == TripInit /\ NormIdle /\ TableIdle /\ RenderIdle
SpecTrip == InitTrip /\ [][TripNext]_vars

\* EnexParser.parse of one export file, and add_tag calls on its notes
InitEnex == EnexInit /\ NormIdle /\ TableIdle /\ RenderIdle /\ WriterIdle /\ ReaderIdle
SpecEnex == InitEnex /\ [][EnexNext]_vars

\* ------------------------------------------------------------------ C1
RECURSIVE RowWidth(_, _)
\* the sum of the colspans of the first k cells of a row
RowWidth(row, k) == IF k = 0 THEN 0 ELSE RowWidth(row, k - 1) + row.cells[k].colspan

\* the largest row width of a table
WidestRow(rs) ==
    CHOOSE w \in {RowWidth(rs[r], Len(rs[r].cells)) : r \in 1..Len(rs)} :
        \A r \in 1..Len(rs) : RowWidth(rs[r], Len(rs[r].cells)) <= w

\* C1: for every table whose cells have rowspan >= 1 and colspan >= 1,
\* _normalize_merged_cells returns one row per input row and every returned
\* row has exactly max_cols cells, max_cols being the largest sum of the
\* colspans of an input row.
C1_GridIsDense ==
    npc = "done" =>
        /\ Len(normalized_rows) = Len(rows)
        /\ \A r \in 1..Len(rows) : Len(normalized_rows[r].cells) = WidestRow(rows)

\* a finished normalization of a two-row table in which a cell that spans
\* two columns was rooted in the last column (its span is cut by the grid)
C1_Witness ==
    /\ npc = "done"
    /\ Len(rows) = 2
    /\ \E id \in DOMAIN placed :
          /\ CellOf(rows, id).colspan = 2
          /\ placed[id] = WidestRow(rows)

\* ------------------------------------------------------------------ C2
\* C2 (as claimed): after normalization a cell that was rooted at grid
\* position (r, c) has its text at every output position (r', c') of its
\* rowspan x colspan span that lies inside the grid.
C2_SpanHoldsContent ==
    npc = "done" =>
        \A id \in DOMAIN placed :
            placed[id] # 0 =>
                \A r2 \in 1..Len(rows), c2 \in 1..WidestRow(rows) :
                    ( /\ id[1] <= r2 /\ r2 < id[1] + CellOf(rows, id).rowspan
                      /\ placed[id] <= c2 /\ c2 < placed[id] + CellOf(rows, id).colspan )
                    => normalized_rows[r2].cells[c2].content = CellOf(rows, id).content

\* ----------------------------------------------- reading emitted tables
RECURSIVE SplitLines(_, _)
\* the newline-terminated lines of a text (cur is the line being read)
SplitLines(text, cur) ==
    IF text = <<>> THEN (IF cur = <<>> THEN <<>> ELSE <<cur>>)
    ELSE IF Head(text) = "\n" THEN <<cur>> \o SplitLines(Tail(text), <<>>)
    ELSE SplitLines(Tail(text), Append(cur, Head(text)))

RECURSIVE SplitCells(_, _)
\* the texts between the pipes of a line "| a | b |", without the blanks
\* that surround them
SplitCells(line, cur) ==
    IF line = <<>> THEN <<>>
    ELSE IF Head(line) = "|"
    THEN (IF cur = <<>> THEN <<>> ELSE <<SubSeq(cur, 2, Len(cur) - 1)>>)
         \o SplitCells(Tail(line), <<>>)
    ELSE SplitCells(Tail(line), Append(cur, Head(line)))

CenterMarker == <<":", "-", "-", "-", ":">>
RightMarker == <<"-", "-", "-", ":">>
LeftMarker == <<"-", "-", "-">>

IsSeparatorLine(line) ==
    /\ SplitCells(line, <<>>) # <<>>
    /\ \A i \in DOMAIN SplitCells(line, <<>>) :
          SplitCells(line, <<>>)[i] \in {CenterMarker, RightMarker, LeftMarker}

\* the lines of the emitted table, and the positions of its separator lines
MdLines == SplitLines(md, <<>>)
SeparatorLines == {k \in DOMAIN MdLines : IsSeparatorLine(MdLines[k])}

RECURSIVE Piped(_)
\* "| t1 | ... | tm |" without the leading pipe
Piped(texts) ==
    IF texts = <<>> THEN <<>> ELSE <<" ">> \o Head(texts) \o <<" ", "|">> \o Piped(Tail(texts))

PipedLine(texts) == <<"|">> \o Piped(texts) \o <<"\n">>

\* the rows of the table element in reading order, and their texts
DomRows(t) == t.thead \o t.tbody \o t.direct
DomTexts(tr) == [j \in 1..Len(tr) |-> tr[j].text]
AllTd(tr) == \A j \in 1..Len(tr) : tr[j].name = "td"
AllTh(tr) == \A j \in 1..Len(tr) : tr[j].name = "th"

\* no alignment is given anywhere in the table element
NoAlignment(t) ==
    /\ \A i \in 1..Len(t.colgroup) : t.colgroup[i] = NoAttrs
    /\ \A r \in 1..Len(DomRows(t)) : \A j \in 1..Len(DomRows(t)[r]) :
          DomRows(t)[r][j].attrs = NoAttrs

\* ------------------------------------------------------------------ C3
\* one header row followed by body rows: the single row of the header
\* grouping with plain rows in the body grouping, or no grouping at all
\* (or only a body grouping) with plain rows after the first row
C3_Shape(t) ==
    /\ NoAlignment(t)
    /\ \/ Len(t.thead) = 1 /\ t.direct = <<>>
       \/ t.thead = <<>> /\ (t.tbody = <<>> \/ t.direct = <<>>)
    /\ \A r \in 2..Len(DomRows(t)) : AllTd(DomRows(t)[r])

RECURSIVE C3_BodyLines(_, _)
C3_BodyLines(trs, r) ==
    IF r > Len(trs) THEN <<>> ELSE PipedLine(DomTexts(trs[r])) \o C3_BodyLines(trs, r + 1)

MarkerOf(align) ==
    IF align = "center" THEN CenterMarker
    ELSE IF align = "right" THEN RightMarker ELSE LeftMarker

\* how many cells of column i carry the explicit alignment a
C4_Count(i, a) ==
    Cardinality({r \in 1..Len(parsed_rows) :
                    i <= Len(parsed_rows[r].cells) /\ parsed_rows[r].cells[i].align = a})

\* the alignment of column i as the claim resolves it
C4_Claimed(i) ==
    IF i <= Len(table.colgroup) /\ get_cell_alignment(table.colgroup[i]) # None
    THEN get_cell_alignment(table.colgroup[i])
    ELSE IF \E a \in {"left", "center", "right"} :
                \A b \in {"left", "center", "right"} \ {a} : C4_Count(i, a) > C4_Count(i, b)
    THEN CHOOSE a \in {"left", "center", "right"} :
                \A b \in {"left", "center", "right"} \ {a} : C4_Count(i, a) > C4_Count(i, b)
    ELSE "left"

\* C4 (as claimed): the marker of each column follows the column-group
\* declaration for the column if there is one, otherwise the majority of the
\* explicit alignments of the column's cells, otherwise left.
C4_AlignmentPrecedence ==
    tpc = "done" =>
        \A k \in SeparatorLines : \A i \in DOMAIN SplitCells(MdLines[k], <<>>) :
            SplitCells(MdLines[k], <<>>)[i] = MarkerOf(C4_Claimed(i))

\* ------------------------------------------------------------------ C5
\* C5: in every emitted separator row the marker of column i is ":---:"
\* iff the resolved alignment of the column is center, "---:" iff it is
\* right and "---" otherwise; the row has as many markers as the header row
\* before it has cells; without any alignment in the table all are "---".
C5_SeparatorMarkers ==
    (tpc = "done" /\ md # <<>>) =>
        /\ SeparatorLines # {}
        /\ \A k \in SeparatorLines :
              LET markers == SplitCells(MdLines[k], <<>>)
              IN  /\ k > 1
                  /\ Len(markers) = Len(SplitCells(MdLines[k - 1], <<>>))
                  /\ Len(markers) = Len(alignments)
                  /\ \A i \in DOMAIN markers :
                        /\ markers[i] = CenterMarker <=> alignments[i] = "center"
                        /\ markers[i] = RightMarker <=> alignments[i] = "right"
                        /\ markers[i] = LeftMarker <=> alignments[i] \notin {"center", "right"}
                  /\ NoAlignment(table) => \A i \in DOMAIN markers : markers[i] = LeftMarker

\* a converted table whose column group declares a centred and a
\* right-aligned column
C5_Witness ==
    /\ tpc = "done"
    /\ Len(alignments) = 2
    /\ alignments[1] = "center" /\ alignments[2] = "right"
    /\ \E k \in SeparatorLines : SplitCells(MdLines[k], <<>>) = <<CenterMarker, RightMarker>>

\* ------------------------------------------------------------------ C6
\* the header rows as the claim determines them: the rows of the header
\* grouping if there are any, else the rows of header-styled cells if there
\* are any, else the first row
C6_ClaimedHeader(r) ==
    LET grouped == {q \in 1..Len(parsed_rows) : parsed_rows[q].is_header}
        styled  == {q \in 1..Len(parsed_rows) :
                       \A j \in 1..Len(parsed_rows[q].cells) : parsed_rows[q].cells[j].is_header}
    IN  IF grouped # {} THEN r \in grouped
        ELSE IF styled # {} THEN r \in styled
        ELSE r = 1

\* C6 (as claimed): the rows of the header grouping are the header rows;
\* else a row is a header row if all its cells are header-styled; the first
\* row is promoted only when no row is a header row by these two rules.
C6_HeaderPrecedence ==
    (tpc = "done" /\ md # <<>>) =>
        \A r \in 1..Len(md_rows) : md_rows[r].is_header <=> C6_ClaimedHeader(r)

\* ------------------------------------------------------------------ C7
\* the tree heading1("Plan") + paragraph("Items:") + unordered_list(["A","B"])
C7_Tree ==
    Document(<<Elem("h1", <<Text(<<"Plan">>)>>),
               Elem("p", <<Text(<<"Items:">>)>>),
               Elem("ul", <<Elem("li", <<Text(<<"A">>)>>), Elem("li", <<Text(<<"B">>)>>)>>)>>)

\* C7 (as claimed): convert renders that tree to exactly
\* "# Plan\n\nItems:\n\n- A\n- B\n".
C7_Example ==
    (rpc = "done" /\ tree = C7_Tree) =>
        converted = <<"#", " ", "Plan", "\n", "\n", "Items:", "\n", "\n",
                      "-", " ", "A", "\n", "-", " ", "B", "\n">>

\* what the code returns for that tree: "# Plan\nItems:\n\n- A\n\n- B"
C7_Observed ==
    (rpc = "done" /\ tree = C7_Tree) =>
        /\ markdown = <<"\n", "#", " ", "Plan", "\n", "Items:", "\n",
                        "-", " ", "A", "\n", "-", " ", "B", "\n">>
        /\ converted = <<"#", " ", "Plan", "\n", "Items:", "\n", "\n",
                         "-", " ", "A", "\n", "\n", "-", " ", "B">>

\* ----------------------------------------------------------- C8, C9, C10
\* the step is a call that saved a note
Saved == calls' = calls + 1 /\ last_call'.outcome = "saved"

\* a markup file of the directory holds a note with the same sanitized title
TitleTaken(name) ==
    \E p \in DOMAIN md_files : sanitize_filename(md_files[p].metadata.title) = name

\* '<name>_<k>.md'
Suffixed(name, k) == name \o <<"_", ToString(k), ".", "m", "d">>

\* the path is '<name>_<k>.md' for the smallest k >= 1 whose path is free
SmallestFreeSuffix(path, name) ==
    \E k \in 1..MaxNotes :
        /\ path = Suffixed(name, k)
        /\ \A j \in 1..(k - 1) : Suffixed(name, j) \in DOMAIN md_files

\* no markup file that exists is removed or rewritten by the step
MarkupKept ==
    \A p \in DOMAIN md_files : p \in DOMAIN md_files' /\ md_files'[p] = md_files[p]

\* C8 (as claimed): every note that writers.MarkdownWriter.write saves gets a
\* path that did not exist before, no existing markup file is overwritten,
\* the number of markup files grows by one, and a note whose sanitized
\* title is already taken is written to '<title>_<k>.md' with the smallest
\* free k >= 1.
C8_OwnMarkupFile ==
    [][Saved =>
         /\ last_call'.filepath \notin DOMAIN md_files
         /\ MarkupKept
         /\ Cardinality(DOMAIN md_files') = Cardinality(DOMAIN md_files) + 1
         /\ TitleTaken(sanitize_filename(last_call'.title)) =>
               SmallestFreeSuffix(last_call'.filepath,
                                  sanitize_filename(last_call'.title))]_vars

\* C9 (as claimed): a note that mark.MarkdownWriter.write_note saves under a
\* sanitized title that is already taken gets a numeric suffix, and the
\* file of the earlier note is not overwritten.
C9_MarkNoCollision ==
    [][Saved =>
         /\ MarkupKept
         /\ TitleTaken(safe_filename(last_call'.title)) =>
               /\ last_call'.filepath \notin DOMAIN md_files
               /\ SmallestFreeSuffix(last_call'.filepath,
                                     safe_filename(last_call'.title))]_vars

\* C10 (as claimed): the assets directory is append-only: a write changes
\* the bytes of no resource file that exists, so two resources with the
\* same file name and different bytes never share one asset file.
C10_AssetsAppendOnly ==
    [][\A n \in DOMAIN asset_files :
          n \in DOMAIN asset_files' /\ asset_files'[n] = asset_files[n]]_vars

\* ------------------------------------------------------------------ C11
\* the step is a call that failed for its note
Failed == calls' = calls + 1 /\ last_call'.outcome = "failed"

\* C11 (as claimed): when a step of MarkdownWriter.write fails for a note,
\* neither a markup file nor an asset file has been created or modified.
C11_NoPartialWrite ==
    [][Failed => md_files' = md_files /\ asset_files' = asset_files]_vars

\* ------------------------------------------------------------------ C12
\* the file that a reference resolves to exists below one of the search
\* directories (the directory of the markup file, assets, images, attachments)
SearchDirs == { <<>>, <<"assets", "/">>, <<"images", "/">>, <<"attachments", "/">> }
Resolves(path) == \E d \in SearchDirs : d \o path \in DOMAIN disk

\* the file found for a resolving reference: the first search directory wins
FoundFile(path) ==
    IF path \in DOMAIN disk THEN path
    ELSE IF <<"assets", "/">> \o path \in DOMAIN disk THEN <<"assets", "/">> \o path
    ELSE IF <<"images", "/">> \o path \in DOMAIN disk THEN <<"images", "/">> \o path
    ELSE <<"attachments", "/">> \o path

\* C12: for a readable markup file MarkdownParser.parse returns a Note; a
\* warning is logged for exactly the image references that resolve in no
\* search directory, the resource list holds no Resource for them, and
\* every image reference that resolves is loaded, in order, with the bytes
\* and the name of the file found.
C12_MissingResource ==
    (post.readable /\ mpc # "start") =>
        LET paths   == image_paths(post.content)
            found   == SelectSeq(paths, Resolves)
            missing == SelectSeq(paths, LAMBDA p : ~Resolves(p))
        IN  /\ mpc = "done"
            /\ warnings = missing
            /\ Len(read_note.resources) = Len(found)
            /\ \A i \in 1..Len(found) :
                  /\ read_note.resources[i].data = disk[FoundFile(found[i])]
                  /\ read_note.resources[i].file_name = BaseName(found[i])

\* a Note was returned for a body with a missing image and a loaded one
C12_Witness ==
    /\ mpc = "done"
    /\ warnings # <<>>
    /\ read_note.resources # <<>>
    /\ \E i \in 1..Len(image_paths(post.content)) :
          /\ ~Resolves(image_paths(post.content)[i])
          /\ \E j \in (i + 1)..Len(image_paths(post.content)) :
                Resolves(image_paths(post.content)[j])

\* ------------------------------------------------------------- C13, C14
\* the round trip of the note is complete: it was parsed from the export,
\* written as markup, read back and exported again
TripDone == wpc = "trip" /\ exported # <<>>

Hashes(resources) == { resources[i].hash : i \in 1..Len(resources) }
TagSet(tags) == { tags[i] : i \in 1..Len(tags) }

\* C13 (as claimed): the round trip preserves the set of resource hashes of
\* the note, for resources of any mime type and whether the export gave
\* the hash or it was computed.
C13_HashesPreserved ==
    TripDone =>
        /\ Hashes(read_note.resources) = Hashes(parsed[1].resources)
        /\ Hashes(exported[1].resources) = Hashes(parsed[1].resources)

\* C14: the round trip preserves the title, the created and updated
\* timestamps to the second (exactly when they hold whole seconds) and the
\* set of tags, in the note read back and in the export written from it.
C14_HeaderPreserved ==
    TripDone =>
        /\ read_note.title = parsed[1].title
        /\ exported[1].title = parsed[1].title
        /\ read_note.created.sec = parsed[1].created.sec
        /\ read_note.updated.sec = parsed[1].updated.sec
        /\ parsed[1].created.micro = 0 => read_note.created = parsed[1].created
        /\ parsed[1].updated.micro = 0 => read_note.updated = parsed[1].updated
        /\ exported[1].created = format_timestamp(parsed[1].created)
        /\ exported[1].updated = format_timestamp(parsed[1].updated)
        /\ TagSet(read_note.tags) = TagSet(parsed[1].tags)
        /\ TagSet(exported[1].tags) = TagSet(parsed[1].tags)

\* a round trip of a note with two tags whose created timestamp carried
\* microseconds
C14_Witness ==
    /\ TripDone
    /\ Cardinality(TagSet(parsed[1].tags)) = 2
    /\ parsed[1].created.micro # 0
    /\ parsed[1].created.sec = 0

\* ------------------------------------------------------------------ C15
\* C15 (as claimed): resources with the same content hash are stored under
\* the same asset file name, so no two asset files hold bytes of one hash.
C15_SameHashSameName ==
    \A n1 \in DOMAIN asset_files : \A n2 \in DOMAIN asset_files :
        calculate_hash(asset_files[n1]) = calculate_hash(asset_files[n2]) => n1 = n2

\* ------------------------------------------------------------------ C16
\* a resource record whose payload is missing or is not an encoding of bytes
MalformedResource(elem) ==
    elem.payload = <<>> \/ ~(Len(elem.payload) = 2 /\ elem.payload[1] = "b64")

\* a note record without title, content and timestamps
MalformedNote(elem) ==
    ~elem.has_title /\ elem.content = EmptyContent /\ elem.created = <<>>

\* the positions of the records that are kept
KeptNotes == SelectSeq([i \in 1..Len(export_doc.notes) |-> i],
                       LAMBDA i : ~MalformedNote(export_doc.notes[i]))

\* C16 (as claimed): an unparsable document raises and yields no notes; of
\* a parsable one every malformed note record is skipped and the others are
\* returned in document order, each with exactly its well-formed resources.
C16_ErrorIsolation ==
    (epc \in {"done", "raised"} /\ wpc = "idle") =>
        IF ~export_doc.wellformed
        THEN epc = "raised" /\ parsed = <<>>
        ELSE /\ epc = "done"
             /\ Len(parsed) = Len(KeptNotes)
             /\ \A k \in 1..Len(KeptNotes) :
                   LET elem == export_doc.notes[KeptNotes[k]]
                       good == SelectSeq(elem.resources,
                                         LAMBDA e : ~MalformedResource(e))
                   IN  /\ elem.has_title => parsed[k].title = elem.title
                       /\ Len(parsed[k].resources) = Len(good)
                       /\ \A j \in 1..Len(good) :
                             parsed[k].resources[j].data = b64decode(good[j].payload)

\* ------------------------------------------------------------- C17, C20
\* the inline elements of the body before and after the rewriting
BodyBefore == markdown_to_html(post.content).kids[1].kids
BodyAfter == read_note.content.kids[1].kids

\* the Resource loaded from the file itself
LoadedFrom(file) ==
    Resource(guess_type(file), disk[file], calculate_hash(disk[file]), BaseName(file))

\* C17 (as claimed): every image reference that resolved to a file is
\* replaced by a marker with the hash and mime of the Resource loaded from
\* that file, also when one file name is part of another reference's path.
C17_OwnMarker ==
    mpc = "done" =>
        \A i \in 1..Len(BodyBefore) :
            (BodyBefore[i].name = "img" /\ Resolves(GetAttr(BodyBefore[i], "src", <<>>))) =>
                BodyAfter[i] =
                    MediaElem(LoadedFrom(FoundFile(GetAttr(BodyBefore[i], "src", <<>>))))

\* C20: every marker in the body of the returned Note carries the hash of
\* a Resource of that Note.
C20_NoDanglingMarker ==
    mpc = "done" =>
        \A i \in 1..Len(BodyAfter) :
            BodyAfter[i].name = "en-media" =>
                \E j \in 1..Len(read_note.resources) :
                    GetAttr(BodyAfter[i], "hash", <<>>) = <<read_note.resources[j].hash>>

\* a Note whose body holds a marker and an image that resolved nowhere
C20_Witness ==
    /\ mpc = "done"
    /\ warnings # <<>>
    /\ \E i \in 1..Len(BodyAfter) : BodyAfter[i].name = "en-media"
    /\ \E i \in 1..Len(BodyAfter) : BodyAfter[i].name = "img"

\* ------------------------------------------------------------------ C18
\* 'filename': the Resource's filename if set, '<hash><extension>' otherwise
C18_FileName(resource) ==
    IF resource.file_name # <<>> THEN resource.file_name
    ELSE IF resource.mime = "image/png" THEN <<resource.hash, ".png">>
    ELSE IF resource.mime = "application/pdf" THEN <<resource.hash, ".pdf">>
    ELSE <<resource.hash, ".bin">>

\* '![filename](assets/filename)' for an image, '[filename](assets/filename)'
\* otherwise
C18_Link(resource) ==
    (IF resource.mime \in {"image/png"} THEN <<"!">> ELSE <<>>)
        \o <<"[">> \o C18_FileName(resource) \o <<"]", "(", "assets", "/">>
        \o C18_FileName(resource) \o <<")">>

\* the text that stands where a node of the body stood
C18_Rewritten(node, resources) ==
    IF node.name = "en-media"
       /\ \E i \in 1..Len(resources) : <<resources[i].hash>> = GetAttr(node, "hash", <<>>)
    THEN C18_Link(resources[CHOOSE i \in 1..Len(resources) :
                               <<resources[i].hash>> = GetAttr(node, "hash", <<>>)])
    ELSE get_text(node)

\* the en-note element of a content
EnNote(content) == content.kids[2]

NoDuplicates(tags) ==
    \A i \in 1..Len(tags) : \A j \in 1..Len(tags) : tags[i] = tags[j] => i = j

\* C19 (as claimed): the tags of every Note that EnexParser.parse returned
\* hold no duplicates, also after add_tag calls.
C19_TagsUnique ==
    \A i \in 1..Len(parsed) : NoDuplicates(parsed[i].tags)

\* ------------------------------------------------------------------ C21
\* the rows of the table element that have cells
C21_RowsWithCells == SelectSeq(find_all_tr(table), LAMBDA tr : tr # <<>>)

\* '| ' + the row's stripped cell texts joined by ' | ' + ' |'
C21_RowLine(tr) ==
    <<"|", " ">>
    \o Join(<<" ", "|", " ">>, [j \in 1..Len(tr) |-> Strip(tr[j].text)])
    \o <<" ", "|">>

\* C21 (as claimed): when a rowspan or colspan attribute is not an integer,
\* html_table_to_markdown returns the fallback table, whose lines are the
\* generic header line, the line '| --- |' and then exactly one line per row
\* that has cells, holding that row's cell texts joined by ' | '.
C21_FallbackTable ==
    (tpc = "done" /\ parse_raises(table)) =>
        SplitOn(md, "\n", <<>>)
            = <<FallbackHeader, <<"|", " ", "-", "-", "-", " ", "|">> >>
              \o [k \in 1..Len(C21_RowsWithCells) |-> C21_RowLine(C21_RowsWithCells[k])]
              \o << <<>> >>

\* ------------------------------------------------------------------ C22
\* the lines of the returned text (the text ends with a newline)
C22_Lines == SplitOn(md, "\n", <<>>)

\* the positions of the separator rows among the lines
C22_Separators ==
    {i \in 1..Len(C22_Lines) :
        C22_Lines[i] = generate_separator_row(Len(md_rows[1].cells), alignments)}

\* C22 (as claimed): a table converted without fallback has exactly one
\* separator row in its markup, however many header rows it has; the
\* separator follows a header row and every row that is not before it comes
\* after it.
C22_OneSeparator ==
    (tpc = "done" /\ md_rows # <<>>) =>
        /\ Cardinality(C22_Separators) = 1
        /\ \A i \in C22_Separators : i > 1 /\ md_rows[i - 1].is_header

\* ------------------------------------------------------------------ C23
\* the rows with at least one cell: those of the header grouping first, then
\* all others in document order
C23_Expected == SelectSeq(find_all_tr(table), LAMBDA tr : tr # <<>>)

\* C23 (as claimed): _parse_table_structure collects every row that has a
\* cell exactly once, the header-grouped rows first and all other rows after
\* them in document order, also when the other rows sit directly under the
\* table element next to a header grouping.
C23_RowsComplete ==
    tpc = "done" =>
        /\ Len(parsed_rows) = Len(C23_Expected)
        /\ \A k \in 1..Len(parsed_rows) :
              /\ Len(parsed_rows[k].cells) = Len(C23_Expected[k])
              /\ \A j \in 1..Len(parsed_rows[k].cells) :
                    parsed_rows[k].cells[j].content = get_cell_content(C23_Expected[k][j])

\* ------------------------------------------------------------------ C24
\* C24 (as claimed): during grid filling, a grid position that holds a cell
\* keeps that same cell in every later step of the normalization.
C24_NoReassignment ==
    [][\A r \in DOMAIN grid : \A c \in DOMAIN grid[r] :
          grid[r][c] # NoCell => grid'[r][c] = grid[r][c]]_vars

\* ------------------------------------------------------------------ C25
\* C25 (as claimed): when the normalization has ended, every original cell
\* was placed in the grid and its text is the content of at least one cell
\* of the normalized rows.
C25_NoCellLost ==
    npc = "done" =>
        \A id \in CellIds(rows) :
            /\ placed[id] # 0
            /\ \E r \in 1..Len(normalized_rows) :
                  \E c \in 1..Len(normalized_rows[r].cells) :
                      normalized_rows[r].cells[c].content = CellOf(rows, id).content

\* ------------------------------------------------------------------ C26
\* the list element of the note body
C26_List == tree.kids[2].kids[1]

\* the marker of item i (1-based) of a list
C26_Marker(name, i) == IF name = "ol" THEN <<ToString(i), ".", " ">> ELSE <<"-", " ">>

\* the lines claimed for one item: the marker line with the item's text
\* alone, then one line per item of its nested list, indented by two spaces
C26_ItemLines(name, item, i) ==
    <<C26_Marker(name, i) \o item.kids[1].text>>
    \o (IF Len(item.kids) = 2
        THEN [k \in 1..Len(item.kids[2].kids) |->
                 <<" ", " ">> \o C26_Marker(item.kids[2].name, k)
                    \o item.kids[2].kids[k].kids[1].text]
        ELSE <<>>)

\* C26 (as claimed): for a list item that is a text T followed by a nested
\* list, the renderer emits the marker line holding only T and then every
\* item of the nested list on a line of its own, indented by two spaces.
C26_NestedList ==
    rpc = "done" =>
        markdown = Join(<<"\n">>,
                        Concat([i \in 1..Len(C26_List.kids) |->
                                   C26_ItemLines(C26_List.name, C26_List.kids[i], i)]))
                   \o <<"\n">>

\* ------------------------------------------------------------------ C27
\* does s hold three consecutive newline characters?
C27_TripleNewline(s) ==
    \E i \in 1..(Len(s) - 2) : s[i] = "\n" /\ s[i + 1] = "\n" /\ s[i + 2] = "\n"

\* C27: the text that convert returns never holds three or more consecutive
\* newline characters.
C27_NoTripleNewline ==
    rpc = "done" => ~C27_TripleNewline(converted)

\* a rendering with three consecutive newlines inside it, in which the
\* cleanup also inserted a blank line before a list marker
C27_Witness ==
    /\ rpc = "done"
    /\ C27_TripleNewline(Strip(markdown))
    /\ blank_before_lists(fix_links(collapse_blank_lines(markdown)))
          # fix_links(collapse_blank_lines(markdown))
    /\ ~C27_TripleNewline(converted)

\* ------------------------------------------------------------------ C28
\* every step of write succeeds for the note: each of its asset files can
\* be opened for writing
C28_OwnStepsSucceed(note) ==
    \A i \in 1..Len(note.resources) : CanOpenAsset(resource_file_name(note.resources[i]))

\* C28: every call of write inside write_all returns to the loop, whether
\* its note failed or not; a call for a note whose own steps succeed adds a
\* markup file holding that note, whatever the calls before it did, and no
\* call removes or changes the markup file of an earlier note.
C28_FailureIsolated ==
    [][calls' = calls + 1 =>
          /\ wpc' = "writers"
          /\ \A p \in DOMAIN md_files : p \in DOMAIN md_files' /\ md_files'[p] = md_files[p]
          /\ C28_OwnStepsSucceed(last_call'.note) =>
                \E p \in DOMAIN md_files' \ DOMAIN md_files :
                    md_files'[p].metadata = create_metadata(last_call'.note)]_vars

\* a note was saved by the call that followed a failed call, and the writer
\* is ready for the next note
C28_Witness ==
    /\ wpc = "writers"
    /\ calls = 2
    /\ last_call.outcome = "saved"
    /\ C28_OwnStepsSucceed(last_call.note)
    /\ Cardinality(DOMAIN md_files) = 1

\* ------------------------------------------------------------------ C29
\* the texts of the cells of the rows of a grouping
C29_Texts(trs) ==
    [k \in 1..Len(trs) |-> [j \in 1..Len(trs[k]) |-> Strip(trs[k][j].text)]]

\* C29 (as claimed): for a table without merged cells that has one header
\* row, markdown_table_to_html(html_table_to_markdown(T)) has the header row
\* in the header grouping and all other rows in the body, with as many cells
\* in each row and the same cell texts as T, also when a cell text holds a
\* pipe character or a body row's cells hold only dashes.
C29_RoundTrip ==
    tpc = "back" =>
        /\ C29_Texts(html_table.thead) = C29_Texts(table.thead)
        /\ C29_Texts(html_table.tbody) = C29_Texts(table.tbody)

\* ------------------------------------------------------------------ C30
\* a note record holds the title, the tags and the resource records (hash,
\* mime, payload) of a note
C30_RecordOf(elem, note) ==
    /\ elem.title = note.title
    /\ elem.tags = note.tags
    /\ Len(elem.resources) = Len(note.resources)
    /\ \A j \in 1..Len(elem.resources) :
          /\ elem.resources[j].hash = note.resources[j].hash
          /\ elem.resources[j].mime = note.resources[j].mime
          /\ elem.resources[j].payload = b64encode(note.resources[j].data)

\* the output file holds exactly the records of the notes written so far,
\* in call order
C30_FileHoldsAll ==
    /\ Len(exported') = Len(written')
    /\ \A i \in 1..Len(exported') : C30_RecordOf(exported'[i], written'[i])

\* C30: a call of write leaves the output file as it is; a call of save puts
\* into the file exactly one record per note written so far, in call order,
\* each with the title, tags and resource records of its note; write_all
\* leaves the file as writing its notes in list order and saving once does.
C30_WriteOnce ==
    [][/\ (written' # written /\ saves' = saves) =>
             exported' = exported
       /\ saves' = saves + 1 => C30_FileHoldsAll]_vars

\* the file was saved with two records or more of different notes, after
\* which another note was written without changing the file
C30_Witness ==
    /\ epc = "writer"
    /\ saves >= 1
    /\ Len(exported) >= 2
    /\ exported[1].title # exported[2].title
    /\ Len(written) > Len(exported)

====
